---- MODULE Spec2Model ----
(***************************************************************************)
(* Verification model of the OPAQUE privacy pool client core               *)
(* (src/src/util/merkle.ts, crypto.ts, privacyPool.ts) and of the pool     *)
(* contract it talks to.                                                   *)
(*                                                                         *)
(* Field elements are modelled as terms of a free algebra written in       *)
(* prefix form as sequences of integers, so that the Poseidon hash is a    *)
(* collision-free function and two values are equal exactly when they were *)
(* built by the same hashes from the same inputs:                          *)
(*    <<v>>, v >= 0          the field element v                           *)
(*    <<-1>> \o a            Poseidon of the one input a                   *)
(*    <<-2>> \o a \o b       Poseidon of the two inputs a, b               *)
(*    <<-10 - k>>, k >= 1    the hash of the empty subtree of height k,    *)
(*                           i.e. Poseidon(z, z) for z the one of height   *)
(*                           k - 1 (height 0 is the field element 0)       *)
(*    << >>                  the JavaScript value undefined                *)
(*    <<-3>>                 an exception thrown while computing a value   *)
(***************************************************************************)
EXTENDS Integers, Sequences, FiniteSets, TLC

VARIABLES
  (* a LeanMerkleTree, the module-level zero table, the last call's outcome *)
  depth, leaves, ZERO_VALUES, ret,
  (* the pool contract: its accumulator, Nullifier Registry, association   *)
  (* root and balance, and the last call's outcome                         *)
  pool_depth, commitments, nullifiers, association_root, balance, cret,
  (* the last call of a codec or hash function: its arguments and result   *)
  cx,
  (* the last call of a client handler (handleDeposit, handleWithdraw):    *)
  (* what it submitted to the contract and what it returned                *)
  hret,
  (* the node map of a MerkleTreeService fed the inserts of the tree       *)
  nodes

treeVars == <<depth, leaves, ZERO_VALUES, ret>>
poolVars == <<pool_depth, commitments, nullifiers, association_root, balance, cret>>
vars == <<depth, leaves, ZERO_VALUES, ret,
          pool_depth, commitments, nullifiers, association_root, balance, cret,
          cx, hret, nodes>>

----------------------------------------------------------------------------
(* Bounds of the model *)

MaxSmallDepth == 2
MaxLeaves == 4
MaxDeposits == 2
MaxPoolDepth == 2

(* Program constants *)

TREE_DEPTH == 8
DOC_TREE_DEPTH == 20
ASSOC_DEPTH == 2
FIXED_AMOUNT == 100

----------------------------------------------------------------------------
(* Values *)

Undefined == << >>
Thrown == <<-3>>
(* the null ZERO_VALUES holds before the first initializeZeroValues *)
Null == << <<-4>> >>
(* getMerklePath ending in an exception *)
ThrownPath == << Thrown >>

(* no codec call and no handler call made yet *)
NoCx == [op |-> "none"]
NoNodes == << >>
NoHret == [op |-> "none", submitted |-> FALSE, success |-> FALSE]

Bad(x) == x = Undefined \/ x = Thrown

Pow2(n) == 2 ^ n

(* array[i] of a JavaScript array (0-based): undefined outside the array *)
At(arr, i) == IF i >= 0 /\ i < Len(arr) THEN arr[i + 1] ELSE Undefined

----------------------------------------------------------------------------
(* crypto.ts: poseidonHash *)

(* the two-input primitive poseidon([a, b]); converting undefined to a    *)
(* field element throws                                                    *)
poseidon2(a, b) ==
  IF Bad(a) \/ Bad(b) THEN Thrown
  ELSE IF a = b /\ a = <<0>> THEN <<-11>>
  ELSE IF a = b /\ Len(a) = 1 /\ a[1] <= -11 THEN <<a[1] - 1>>
  ELSE <<-2>> \o a \o b

(* the one-input primitive poseidon([a]) *)
poseidon1(a) == IF Bad(a) THEN Thrown ELSE <<-1>> \o a

RECURSIVE poseidonFold(_, _, _)
poseidonFold(result, inputs, i) ==
  IF i > Len(inputs) THEN result
  ELSE poseidonFold(poseidon2(result, inputs[i]), inputs, i + 1)

(* poseidonHash(inputs): the primitive for one or two inputs, the         *)
(* sequential fold for more; poseidon([]) throws                          *)
RECURSIVE poseidonFoldRight(_, _)
poseidonFoldRight(inputs, i) ==
  IF i >= Len(inputs) - 1 THEN poseidon2(inputs[i], inputs[i + 1])
  ELSE poseidon2(inputs[i], poseidonFoldRight(inputs, i + 1))
poseidonHashRightNested(inputs) ==
  IF Len(inputs) > 2 THEN poseidonFoldRight(inputs, 1)
  ELSE IF Len(inputs) = 2 THEN poseidon2(inputs[1], inputs[2])
  ELSE IF Len(inputs) = 1 THEN poseidon1(inputs[1])
  ELSE Thrown
poseidonHashPairSwapped(inputs) ==
  IF Len(inputs) > 2
    THEN poseidonFold(poseidon2(inputs[2], inputs[1]), inputs, 3)
  ELSE IF Len(inputs) = 2 THEN poseidon2(inputs[1], inputs[2])
  ELSE IF Len(inputs) = 1 THEN poseidon1(inputs[1])
  ELSE Thrown
poseidonHash(inputs) ==
  IF Len(inputs) > 2
    THEN poseidonFold(poseidon2(inputs[1], inputs[2]), inputs, 3)
  ELSE IF Len(inputs) = 2 THEN poseidon2(inputs[1], inputs[2])
  ELSE IF Len(inputs) = 1 THEN poseidon1(inputs[1])
  ELSE Thrown

(* crypto.ts: computeCommitment, computeNullifierHash *)
computeCommitmentSwapped(value, label, nullifier, secret) ==
  LET precommitment == poseidonHash(<<nullifier, secret>>)
      hashValueLabel == poseidonHash(<<value, label>>)
  IN  poseidonHash(<<precommitment, hashValueLabel>>)
computeCommitment(value, label, nullifier, secret) ==
  LET precommitment == poseidonHash(<<nullifier, secret>>)
      hashValueLabel == poseidonHash(<<value, label>>)
  IN  poseidonHash(<<hashValueLabel, precommitment>>)

computeNullifierHash(nullifier) == poseidonHash(<<nullifier>>)

----------------------------------------------------------------------------
(* merkle.ts: the zero table *)

RECURSIVE ZeroLoop(_, _)
ZeroLoop(zs, i) ==
  IF i > TREE_DEPTH THEN zs
  ELSE CHOOSE table \in {ZeroLoop(next, i + 1) :
                           next \in {Append(zs, h) :
                                      h \in {poseidonHash(<<zs[i], zs[i]>>)}}} : TRUE

(* the table initializeZeroValues returns; ZERO_VALUES is set to it *)
initializeZeroValues(zv) == IF zv # Null THEN zv ELSE ZeroLoop(<< <<0>> >>, 1)

----------------------------------------------------------------------------
(* merkle.ts: LeanMerkleTree *)

(* the for loop that builds the parents of a layer, the last node of an   *)
(* odd layer paired with zeroAtLevel                                       *)
BuildLayer(currentLayer, zeroAtLevel) ==
  [j \in 1..((Len(currentLayer) + 1) \div 2) |->
     poseidonHash(<<currentLayer[2 * j - 1],
                    IF 2 * j <= Len(currentLayer) THEN currentLayer[2 * j]
                                                  ELSE zeroAtLevel>>)]

LayerThrows(layer) == \E j \in 1..Len(layer) : layer[j] = Thrown

RECURSIVE RootLoop(_, _, _, _)
RootLoop(currentLayer, level, d, zeros) ==
  IF ~(Len(currentLayer) > 1 \/ level < d) THEN currentLayer[1]
  ELSE LET zeroAtLevel == At(zeros, level)
           built == BuildLayer(currentLayer, zeroAtLevel)
           nextLayer == IF Len(built) = 0 THEN <<zeroAtLevel>> ELSE built
       IN  IF LayerThrows(built) THEN Thrown
           ELSE IF level + 1 >= d /\ Len(nextLayer) = 1 THEN nextLayer[1]
           ELSE RootLoop(nextLayer, level + 1, d, zeros)

computeRoot(ls, d, zeros) ==
  IF Len(ls) = 0 THEN At(zeros, d) ELSE RootLoop(ls, 0, d, zeros)

(* getMerklePath after its index check: the siblings, or ThrownPath *)
RECURSIVE PathLoop(_, _, _, _, _, _)
PathLoop(currentLayer, currentIndex, level, d, zeros, siblings) ==
  IF level >= d THEN siblings
  ELSE LET zeroAtLevel == At(zeros, level)
           siblingIndex == IF currentIndex % 2 = 0 THEN currentIndex + 1
                                                   ELSE currentIndex - 1
           sib == IF siblingIndex < Len(currentLayer)
                    THEN At(currentLayer, siblingIndex) ELSE zeroAtLevel
           built == BuildLayer(currentLayer, zeroAtLevel)
           nextLayer == IF Len(built) = 0 THEN <<At(zeros, level + 1)>> ELSE built
       IN  IF LayerThrows(built) THEN ThrownPath
           ELSE PathLoop(nextLayer, currentIndex \div 2, level + 1, d, zeros,
                         Append(siblings, sib))

getMerklePath(ls, d, zeros, leafIndex) ==
  PathLoop(ls, leafIndex, 0, d, zeros, << >>)

RECURSIVE VerifyLoop(_, _, _, _, _)
VerifyLoop(currentHash, currentIndex, siblings, i, d) ==
  IF i >= d THEN currentHash
  ELSE VerifyLoop(IF currentIndex % 2 = 0
                    THEN poseidonHash(<<currentHash, siblings[i + 1]>>)
                    ELSE poseidonHash(<<siblings[i + 1], currentHash>>),
                  currentIndex \div 2, siblings, i + 1, d)

(* verifyProof's shape test: siblings.length !== this.depth rejects *)
SiblingsLengthAtLeast(siblings, d) == Len(siblings) >= d
SiblingsLengthOk(siblings, d) == Len(siblings) = d

(* TRUE / FALSE as verifyProof returns them; "throw" when a hash throws *)
verifyProof(d, leaf, leafIndex, siblings, root) ==
  IF ~SiblingsLengthOk(siblings, d) THEN "false"
  ELSE LET h == VerifyLoop(leaf, leafIndex, siblings, 0, d)
       IN  IF h = Thrown THEN "throw"
           ELSE IF h = root THEN "true" ELSE "false"

----------------------------------------------------------------------------
(* The reference accumulator of the specification: the full binary tree   *)
(* of depth D over the leaf sequence padded with zero[0]                   *)

RECURSIVE ZeroUp(_, _)
ZeroUp(z, k) == IF k = 0 THEN z ELSE ZeroUp(poseidon2(z, z), k - 1)

(* zero[0] = 0, zero[k] = H(zero[k-1], zero[k-1]) *)
ZeroRef(k) == ZeroUp(<<0>>, k)

(* the node at height level, position idx; a subtree that holds no leaf   *)
(* is the zero subtree of its height                                       *)
RECURSIVE RefNode(_, _, _)
RefNode(ls, level, idx) ==
  IF idx * Pow2(level) >= Len(ls) THEN ZeroRef(level)
  ELSE IF level = 0 THEN ls[idx + 1]
  ELSE poseidon2(RefNode(ls, level - 1, 2 * idx), RefNode(ls, level - 1, 2 * idx + 1))

RefRoot(ls, D) == RefNode(ls, D, 0)

----------------------------------------------------------------------------
(* The pool contract (specification sections 4.4, 4.6 and 6; the contract *)
(* overview, src/unnamed/part_005)                                         *)

ADMIN == "admin"
Callers == {"admin", "user"}
Depositor == "user"

(* the notes of the holders: nullifier, secret, label; value FIXED_AMOUNT *)
Notes == {1, 2}
NoteNullifier(n) == <<10 + n>>
NoteSecret(n) == <<20 + n>>
NoteLabel(n) == <<30 + n>>
NoteCommitment(n) ==
  computeCommitment(<<FIXED_AMOUNT>>, NoteLabel(n), NoteNullifier(n), NoteSecret(n))
NoteNullifierHash(n) == computeNullifierHash(NoteNullifier(n))

(* the approved label lists the authority publishes roots of *)
ApprovedLists == {<<NoteLabel(1)>>, <<NoteLabel(1), NoteLabel(2)>>}
AssociationRootOf(labels) == RefRoot(labels, ASSOC_DEPTH)
ZeroRoot == <<0>>

NoCret == [op |-> "none", err |-> "", idx |-> -1, caller |-> "",
           nullifierHash |-> Undefined, stateRoot |-> Undefined,
           associationRoot |-> Undefined, proofOk |-> FALSE, value |-> 0]

(* the contract at genesis: empty accumulator and registry, association   *)
(* root not yet set                                                        *)
PoolGenesis(d) ==
  /\ pool_depth = d
  /\ commitments = << >>
  /\ nullifiers = {}
  /\ association_root = ZeroRoot
  /\ balance = 0
  /\ cret = NoCret

(* get_merkle_root(): the accumulator's root() *)
get_merkle_root == RefRoot(commitments, pool_depth)

(* the accumulator's insert is refused: leaf_index >= 2^D *)
TreeFull(index, d) == index >= Pow2(d)

(* deposit(from, commitment) -> leaf_index *)
Deposit(from, commitment) ==
  LET index == Len(commitments)
  IN  /\ UNCHANGED <<pool_depth, nullifiers, association_root>>
      /\ IF TreeFull(index, pool_depth)
           THEN /\ UNCHANGED <<commitments, balance>>
                /\ cret' = [NoCret EXCEPT !.op = "deposit", !.caller = from,
                                          !.err = "TreeFull"]
           ELSE /\ index < MaxDeposits
                /\ commitments' = Append(commitments, commitment)
                /\ balance' = balance + FIXED_AMOUNT
                /\ cret' = [NoCret EXCEPT !.op = "deposit", !.caller = from,
                                          !.idx = index]

(* set_association_root(caller, root): the authority only *)
IsAuthorityAnyCaller(caller) == caller \in Callers
IsAuthority(caller) == caller = ADMIN

SetAssociationRoot(caller, root) ==
  /\ UNCHANGED <<pool_depth, commitments, nullifiers, balance>>
  /\ IF IsAuthority(caller)
       THEN /\ association_root' = root
            /\ cret' = [NoCret EXCEPT !.op = "set_association_root",
                                      !.caller = caller, !.associationRoot = root]
       ELSE /\ UNCHANGED association_root
            /\ cret' = [NoCret EXCEPT !.op = "set_association_root",
                                      !.caller = caller, !.associationRoot = root,
                                      !.err = "OnlyAdmin"]

(* What the withdraw circuit proves of its public signals: some note with *)
(* this nullifier hash and a value covering the withdrawn value has its    *)
(* commitment under stateRoot, and its label under associationRoot unless  *)
(* that root is zero.                                                      *)
StatementHoldsAnyValue(nullifierHash, withdrawnValue, stateRoot, associationRoot) ==
  \E n \in Notes :
    /\ nullifierHash = NoteNullifierHash(n)
    /\ \E k \in 1..Len(commitments) :
         /\ stateRoot = RefRoot(SubSeq(commitments, 1, k), pool_depth)
         /\ \E j \in 1..k : commitments[j] = NoteCommitment(n)
    /\ \/ associationRoot = ZeroRoot
       \/ \E ls \in ApprovedLists :
            /\ associationRoot = AssociationRootOf(ls)
            /\ \E j \in 1..Len(ls) : ls[j] = NoteLabel(n)
StatementHolds(nullifierHash, withdrawnValue, stateRoot, associationRoot) ==
  \E n \in Notes :
    /\ nullifierHash = NoteNullifierHash(n)
    /\ withdrawnValue <= FIXED_AMOUNT
    /\ \E k \in 1..Len(commitments) :
         /\ stateRoot = RefRoot(SubSeq(commitments, 1, k), pool_depth)
         /\ \E j \in 1..k : commitments[j] = NoteCommitment(n)
    /\ \/ associationRoot = ZeroRoot
       \/ \E ls \in ApprovedLists :
            /\ associationRoot = AssociationRootOf(ls)
            /\ \E j \in 1..Len(ls) : ls[j] = NoteLabel(n)

(* Groth16 verification of the submitted proof against the signals *)
ProofVerifies(proofOk, nullifierHash, withdrawnValue, stateRoot, associationRoot) ==
  proofOk /\ StatementHolds(nullifierHash, withdrawnValue, stateRoot, associationRoot)

(* the checks of the withdraw transition, each on the state before it *)
NullifierUsed(nullifierHash) == nullifierHash \in nullifiers
StateRootStale(stateRoot) == stateRoot # get_merkle_root
AssociationNotSet == association_root = ZeroRoot
AssociationDiffers(associationRoot) == associationRoot # association_root

(* the error of the first check that fails, in the order nullifier         *)
(* freshness, state root, association root, proof; "" when all pass        *)
WithdrawErrorProofFirst(proofOk, nullifierHash, withdrawnValue, stateRoot, associationRoot) ==
  IF ~ProofVerifies(proofOk, nullifierHash, withdrawnValue, stateRoot, associationRoot)
    THEN "ProofInvalid"
  ELSE IF NullifierUsed(nullifierHash) THEN "NullifierAlreadyUsed"
  ELSE IF StateRootStale(stateRoot) THEN "StateRootMismatch"
  ELSE IF AssociationNotSet THEN "AssociationNotConfigured"
  ELSE IF AssociationDiffers(associationRoot) THEN "AssociationMismatch"
  ELSE ""

WithdrawErrorZeroWildcard(proofOk, nullifierHash, withdrawnValue, stateRoot, associationRoot) ==
  IF NullifierUsed(nullifierHash) THEN "NullifierAlreadyUsed"
  ELSE IF StateRootStale(stateRoot) THEN "StateRootMismatch"
  ELSE IF AssociationDiffers(associationRoot) THEN "AssociationMismatch"
  ELSE IF ~ProofVerifies(proofOk, nullifierHash, withdrawnValue, stateRoot, associationRoot)
    THEN "ProofInvalid"
  ELSE ""

WithdrawErrorNoFreshness(proofOk, nullifierHash, withdrawnValue, stateRoot, associationRoot) ==
  IF StateRootStale(stateRoot) THEN "StateRootMismatch"
  ELSE IF AssociationNotSet THEN "AssociationNotConfigured"
  ELSE IF AssociationDiffers(associationRoot) THEN "AssociationMismatch"
  ELSE IF ~ProofVerifies(proofOk, nullifierHash, withdrawnValue, stateRoot, associationRoot)
    THEN "ProofInvalid"
  ELSE ""

WithdrawErrorNoRootCheck(proofOk, nullifierHash, withdrawnValue, stateRoot, associationRoot) ==
  IF NullifierUsed(nullifierHash) THEN "NullifierAlreadyUsed"
  ELSE IF AssociationNotSet THEN "AssociationNotConfigured"
  ELSE IF AssociationDiffers(associationRoot) THEN "AssociationMismatch"
  ELSE IF ~ProofVerifies(proofOk, nullifierHash, withdrawnValue, stateRoot, associationRoot)
    THEN "ProofInvalid"
  ELSE ""

WithdrawError(proofOk, nullifierHash, withdrawnValue, stateRoot, associationRoot) ==
  IF NullifierUsed(nullifierHash) THEN "NullifierAlreadyUsed"
  ELSE IF StateRootStale(stateRoot) THEN "StateRootMismatch"
  ELSE IF AssociationNotSet THEN "AssociationNotConfigured"
  ELSE IF AssociationDiffers(associationRoot) THEN "AssociationMismatch"
  ELSE IF ~ProofVerifies(proofOk, nullifierHash, withdrawnValue, stateRoot, associationRoot)
    THEN "ProofInvalid"
  ELSE ""

(* the registry after a withdraw that ends with error e *)
RegistryAfterEager(e, nullifierHash) ==
  IF e \in {"", "ProofInvalid"} THEN nullifiers \cup {nullifierHash} ELSE nullifiers
RegistryAfter(e, nullifierHash) ==
  IF e = "" THEN nullifiers \cup {nullifierHash} ELSE nullifiers

(* withdraw(to, proof, public_signals), the signals being                  *)
(* [nullifierHash, withdrawnValue, stateRoot, associationRoot]             *)
Withdraw(to, proofOk, nullifierHash, withdrawnValue, stateRoot, associationRoot) ==
  LET e == WithdrawError(proofOk, nullifierHash, withdrawnValue, stateRoot,
                         associationRoot)
  IN  /\ UNCHANGED <<pool_depth, commitments, association_root>>
      /\ nullifiers' = RegistryAfter(e, nullifierHash)
      /\ balance' = IF e = "" THEN balance - withdrawnValue ELSE balance
      /\ cret' = [NoCret EXCEPT !.op = "withdraw", !.caller = to, !.err = e,
                                !.proofOk = proofOk,
                                !.nullifierHash = nullifierHash,
                                !.stateRoot = stateRoot,
                                !.associationRoot = associationRoot,
                                !.value = withdrawnValue]

(* the values withdrawals declare: the fixed amount, and more than it *)
WithdrawnValues == {FIXED_AMOUNT, 2 * FIXED_AMOUNT}

(* the depths the pool is deployed with (a deployment parameter) *)
PoolDepths == 1..MaxPoolDepth

(* the roots the authority sets *)
AssociationRoots == {ZeroRoot} \cup {AssociationRootOf(ls) : ls \in ApprovedLists}

(* the state roots withdrawals declare: the accumulator's current root and *)
(* the root it had before the last deposit (a client mirror is a snapshot) *)
StateRootArgs ==
  {RefRoot(SubSeq(commitments, 1, k), pool_depth) :
     k \in {Len(commitments), Len(commitments) - 1} \cap (0..Len(commitments))}


----------------------------------------------------------------------------
(* The LeanMerkleTree under test: its state and its operations *)

(* the depths handed to the constructor: small trees that fill up, the    *)
(* module's TREE_DEPTH, and the depth the integration guide and the        *)
(* circuit use                                                             *)
Depths == (0..MaxSmallDepth) \cup {TREE_DEPTH, DOC_TREE_DEPTH}

(* the leaves inserted; <<0>> is the field element that is also zero[0] *)
LeafVals == {<<0>>, <<1>>}

NoRet == [op |-> "none", err |-> "", idx |-> -1, leaf |-> Undefined,
          siblings |-> << >>, root |-> Undefined, ok |-> "none"]

(* constructor(depth): an empty tree; the zero table is not yet computed *)
InitTree ==
  /\ depth \in Depths
  /\ leaves = << >>
  /\ ZERO_VALUES = Null
  /\ ret = NoRet
  /\ PoolGenesis(TREE_DEPTH)
  /\ cx = NoCx
  /\ hret = NoHret
  /\ nodes = NoNodes

(* addLeaf's capacity test: index >= 2 ** this.depth *)
AtCapacityOffByOne(index, d) == index > Pow2(d)
AtCapacity(index, d) == index >= Pow2(d)

(* addLeaf(leaf) *)
AddLeaf(leaf) ==
  LET index == Len(leaves)
  IN  /\ UNCHANGED <<depth, ZERO_VALUES>>
      /\ IF AtCapacity(index, depth)
           THEN /\ leaves' = leaves
                /\ ret' = [NoRet EXCEPT !.op = "addLeaf", !.leaf = leaf,
                                        !.err = "Tree at capacity"]
           ELSE /\ index < MaxLeaves
                /\ leaves' = Append(leaves, leaf)
                /\ ret' = [NoRet EXCEPT !.op = "addLeaf", !.leaf = leaf,
                                        !.idx = index]

(* computeRoot() *)
ComputeRoot ==
  LET zeros == initializeZeroValues(ZERO_VALUES)
      r == computeRoot(leaves, depth, zeros)
  IN  /\ ZERO_VALUES' = zeros
      /\ UNCHANGED <<depth, leaves>>
      /\ ret' = IF r = Thrown
                  THEN [NoRet EXCEPT !.op = "computeRoot", !.err = "TypeError"]
                  ELSE [NoRet EXCEPT !.op = "computeRoot", !.root = r]

(* getMerklePath's index test: leafIndex < 0 || leafIndex >= leaves.length *)
InvalidLeafIndexUpperOnly(leafIndex, n) == leafIndex > n
InvalidLeafIndex(leafIndex, n) == leafIndex < 0 \/ leafIndex >= n

(* getMerklePath(leafIndex) *)
GetMerklePath(leafIndex) ==
  /\ UNCHANGED <<depth, leaves>>
  /\ IF InvalidLeafIndex(leafIndex, Len(leaves))
       THEN /\ UNCHANGED ZERO_VALUES
            /\ ret' = [NoRet EXCEPT !.op = "getMerklePath", !.idx = leafIndex,
                                    !.err = "Invalid leaf index"]
       ELSE LET zeros == initializeZeroValues(ZERO_VALUES)
                p == getMerklePath(leaves, depth, zeros, leafIndex)
            IN  /\ ZERO_VALUES' = zeros
                /\ ret' = IF p = ThrownPath
                            THEN [NoRet EXCEPT !.op = "getMerklePath",
                                    !.idx = leafIndex, !.err = "TypeError"]
                            ELSE [NoRet EXCEPT !.op = "getMerklePath",
                                    !.idx = leafIndex, !.siblings = p]

(* verifyProof(leaf, leafIndex, siblings, root) *)
VerifyProof(leaf, leafIndex, siblings, root) ==
  LET v == verifyProof(depth, leaf, leafIndex, siblings, root)
  IN  /\ UNCHANGED <<depth, leaves, ZERO_VALUES>>
      /\ ret' = IF v = "throw"
                  THEN [NoRet EXCEPT !.op = "verifyProof", !.leaf = leaf,
                          !.idx = leafIndex, !.siblings = siblings,
                          !.root = root, !.err = "TypeError"]
                  ELSE [NoRet EXCEPT !.op = "verifyProof", !.leaf = leaf,
                          !.idx = leafIndex, !.siblings = siblings,
                          !.root = root, !.ok = v]

(* The arguments verifyProof is called with.  A base call takes a leaf of  *)
(* the tree, its index, its path as getMerklePath returned it and the root *)
(* as computeRoot returned it (on the empty tree, or when these throw: the *)
(* leaf 0, a list of depth zero-table entries, undefined).  The other      *)
(* calls change one argument of a base call: another leaf, another index   *)
(* (the next one, or the same position one tree width further), the path   *)
(* one sibling short, one sibling long or with its first sibling replaced, *)
(* another root.                                                           *)
BaseCalls ==
  LET zeros == initializeZeroValues(ZERO_VALUES)
      r == computeRoot(leaves, depth, zeros)
      root == IF r = Thrown THEN Undefined ELSE r
      zeroPath == [k \in 1..depth |-> At(zeros, k - 1)]
      pathOf(j) == LET p == getMerklePath(leaves, depth, zeros, j)
                   IN  IF p = ThrownPath THEN zeroPath ELSE p
  IN  IF Len(leaves) = 0
        THEN {<< <<0>>, 0, zeroPath, root >>}
        ELSE {<< leaves[j + 1], j, pathOf(j), root >> : j \in 0..(Len(leaves) - 1)}

OtherLeaf(leaf) == IF leaf = <<0>> THEN <<1>> ELSE <<0>>

Deviations(c) ==
  {c,
   << OtherLeaf(c[1]), c[2], c[3], c[4] >>,
   << c[1], c[2] + 1, c[3], c[4] >>,
   << c[1], c[2] + Pow2(depth), c[3], c[4] >>,
   << c[1], c[2], Append(c[3], <<0>>), c[4] >>,
   << c[1], c[2], c[3], <<0>> >>}
    \cup (IF Len(c[3]) > 0
            THEN {<< c[1], c[2], SubSeq(c[3], 1, Len(c[3]) - 1), c[4] >>,
                  << c[1], c[2], [c[3] EXCEPT ![1] = <<7>>], c[4] >>}
            ELSE {})

VerifyArgs == UNION {Deviations(c) : c \in BaseCalls}

NextTree ==
  \/ \E leaf \in LeafVals : AddLeaf(leaf) /\ UNCHANGED <<poolVars, cx, nodes, hret>>
  \/ ComputeRoot /\ UNCHANGED <<poolVars, cx, nodes, hret>>
  \/ \E i \in -1..(Len(leaves) + 1) : GetMerklePath(i) /\ UNCHANGED <<poolVars, cx, nodes, hret>>
  \/ \E c \in VerifyArgs : VerifyProof(c[1], c[2], c[3], c[4]) /\ UNCHANGED <<poolVars, cx, nodes, hret>>

SpecTree == InitTree /\ [][NextTree]_vars

(* The pool contract on its own; the client tree is not touched *)
InitPool ==
  /\ \E d \in PoolDepths : PoolGenesis(d)
  /\ depth = TREE_DEPTH
  /\ leaves = << >>
  /\ ZERO_VALUES = Null
  /\ ret = NoRet
  /\ cx = NoCx
  /\ hret = NoHret
  /\ nodes = NoNodes

NextPool ==
  \/ \E n \in Notes :
       Deposit(Depositor, NoteCommitment(n)) /\ UNCHANGED <<treeVars, cx, nodes, hret>>
  \/ \E caller \in Callers, root \in AssociationRoots :
       SetAssociationRoot(caller, root) /\ UNCHANGED <<treeVars, cx, nodes, hret>>
  \/ \E proofOk \in BOOLEAN, n \in Notes, sr \in StateRootArgs, ar \in AssociationRoots,
          withdrawnValue \in WithdrawnValues :
       Withdraw("user", proofOk, NoteNullifierHash(n), withdrawnValue, sr, ar)
         /\ UNCHANGED <<treeVars, cx, nodes, hret>>

SpecPool == InitPool /\ [][NextPool]_vars

----------------------------------------------------------------------------
(* Claims about the withdraw transition, checked under SpecPool *)

(* C1: a withdraw whose nullifierHash is already in the Nullifier Registry *)
(* fails with NullifierAlreadyUsed; an accepted withdraw adds exactly its  *)
(* own nullifierHash, which was not in the registry, and a rejected one    *)
(* adds none; no step removes an entry.  Hence no nullifierHash is         *)
(* accepted twice.                                                         *)
C1_NullifierAcceptedAtMostOnce ==
  [][/\ nullifiers \subseteq nullifiers'
     /\ (cret'.op = "withdraw")
          => /\ (cret'.nullifierHash \in nullifiers)
                  => cret'.err = "NullifierAlreadyUsed"
             /\ (cret'.err = "")
                  => /\ cret'.nullifierHash \notin nullifiers
                     /\ nullifiers' = nullifiers \cup {cret'.nullifierHash}
                     /\ Cardinality(nullifiers') = Cardinality(nullifiers) + 1
             /\ (cret'.err # "") => nullifiers' = nullifiers
     /\ (cret'.op # "withdraw") => nullifiers' = nullifiers]_vars

(* a second submission of an accepted nullifierHash, with a proof that     *)
(* would verify, is refused                                                *)
C1_Witness ==
  /\ cret.op = "withdraw" /\ cret.err = "NullifierAlreadyUsed"
  /\ cret.proofOk /\ cret.nullifierHash \in nullifiers
  /\ cret.stateRoot = RefRoot(commitments, pool_depth)

(* C2: a withdraw that fails at any validation step leaves the registry,   *)
(* the accumulator and the balance as they were; the nullifierHash is      *)
(* inserted and the payout made exactly when all checks pass               *)
C2_NoPartialCommit ==
  [][(cret'.op = "withdraw")
       => LET allPass ==
                /\ cret'.nullifierHash \notin nullifiers
                /\ cret'.stateRoot = RefRoot(commitments, pool_depth)
                /\ association_root # ZeroRoot
                /\ cret'.associationRoot = association_root
                /\ cret'.proofOk
                /\ StatementHolds(cret'.nullifierHash, cret'.value,
                                  cret'.stateRoot, cret'.associationRoot)
          IN  IF allPass
                THEN /\ cret'.err = ""
                     /\ nullifiers' = nullifiers \cup {cret'.nullifierHash}
                     /\ balance' = balance - cret'.value
                     /\ commitments' = commitments
                ELSE /\ cret'.err # ""
                     /\ nullifiers' = nullifiers
                     /\ balance' = balance
                     /\ commitments' = commitments]_vars

(* a withdraw that passed the first three checks and failed at the proof   *)
C2_Witness ==
  /\ cret.op = "withdraw" /\ cret.err = "ProofInvalid"
  /\ nullifiers = {} /\ balance = 2 * FIXED_AMOUNT /\ association_root # ZeroRoot

C4_ZeroAssociationRootRejects ==
  [][(cret'.op = "withdraw" /\ association_root = ZeroRoot)
       => /\ cret'.err # ""
          /\ nullifiers' = nullifiers /\ balance' = balance
          /\ (/\ cret'.nullifierHash \notin nullifiers
              /\ cret'.stateRoot = RefRoot(commitments, pool_depth))
               => cret'.err = "AssociationNotConfigured"]_vars

(* the declared root equals the zero current root and the proof verifies   *)
(* under the circuit's reading of a zero association root                  *)
C4_Witness ==
  /\ cret.op = "withdraw" /\ cret.err = "AssociationNotConfigured"
  /\ association_root = ZeroRoot /\ cret.associationRoot = ZeroRoot
  /\ cret.proofOk
  /\ StatementHolds(cret.nullifierHash, cret.value, cret.stateRoot,
                    cret.associationRoot)

----------------------------------------------------------------------------
(* the sibling subtree of leaf i at height k holds no leaf *)
SiblingEmpty(i, k, n) ==
  LET a == i \div Pow2(k)
      s == IF a % 2 = 0 THEN a + 1 ELSE a - 1
  IN  s * Pow2(k) >= n

----------------------------------------------------------------------------
(* Claims about the accumulator, checked under SpecTree *)

(* C5: for a tree of depth D holding n <= 2^D leaves, the root computeRoot *)
(* returns equals the root of the reference full binary tree of depth D    *)
(* over the leaves padded with zero subtrees; the empty tree gives zero[D] *)
C5_RootEqualsReference ==
  (ret.op = "computeRoot" /\ Len(leaves) <= Pow2(depth))
    => (ret.err = "" /\ ret.root = RefRoot(leaves, depth))

(* what holds instead: the same for the depths the zero table covers *)
RootEqualsReferenceUpToTreeDepth ==
  (ret.op = "computeRoot" /\ Len(leaves) <= Pow2(depth) /\ depth <= TREE_DEPTH)
    => (ret.err = "" /\ ret.root = RefRoot(leaves, depth))

(* C6: for every leaf index i < n, getMerklePath(i) returns exactly D      *)
(* siblings, the sibling at height k is zero[k] whenever the sibling       *)
(* subtree is empty, and verifyProof(leaf_i, i, path, computeRoot()) is    *)
(* true                                                                    *)
C6_PathVerifies ==
  (ret.op = "getMerklePath" /\ ret.idx >= 0 /\ ret.idx < Len(leaves))
    => /\ ret.err = ""
       /\ Len(ret.siblings) = depth
       /\ \A k \in 0..(depth - 1) :
            SiblingEmpty(ret.idx, k, Len(leaves)) => ret.siblings[k + 1] = ZeroRef(k)
       /\ verifyProof(depth, leaves[ret.idx + 1], ret.idx, ret.siblings,
                      computeRoot(leaves, depth, ZERO_VALUES)) = "true"

(* what holds instead: the same for the depths the zero table covers *)
PathVerifiesUpToTreeDepth ==
  (ret.op = "getMerklePath" /\ ret.idx >= 0 /\ ret.idx < Len(leaves)
     /\ depth <= TREE_DEPTH)
    => /\ ret.err = ""
       /\ Len(ret.siblings) = depth
       /\ \A k \in 0..(depth - 1) :
            SiblingEmpty(ret.idx, k, Len(leaves)) => ret.siblings[k + 1] = ZeroRef(k)
       /\ verifyProof(depth, leaves[ret.idx + 1], ret.idx, ret.siblings,
                      computeRoot(leaves, depth, ZERO_VALUES)) = "true"

(* C7: a successful addLeaf returns the number of leaves held before it    *)
(* and appends its leaf; addLeaf on a tree holding 2^D leaves fails with   *)
(* 'Tree at capacity' and leaves the leaf sequence and the root unchanged; *)
(* nothing but addLeaf changes the leaf sequence                           *)
C7_InsertIndexMonotonicBounded ==
  [][/\ (ret'.op = "addLeaf" /\ (ret' # ret \/ leaves' # leaves))
          => IF Len(leaves) >= Pow2(depth)
               THEN /\ ret'.err = "Tree at capacity"
                    /\ leaves' = leaves /\ depth' = depth
                    /\ RefRoot(leaves', depth') = RefRoot(leaves, depth)
               ELSE /\ ret'.err = ""
                    /\ ret'.idx = Len(leaves)
                    /\ leaves' = Append(leaves, ret'.leaf)
      /\ (ret'.op # "addLeaf") => leaves' = leaves
      /\ Len(leaves') <= Pow2(depth')]_vars

C7_Witness ==
  /\ ret.op = "addLeaf" /\ ret.err = "Tree at capacity"
  /\ depth = 2 /\ Len(leaves) = 4

C10_AnyDepthAccepted ==
  /\ (ret.op = "computeRoot" /\ Len(leaves) = 0) => ret.root = ZeroRef(depth)
  /\ (ret.op = "computeRoot" /\ Len(leaves) > 0) => ret.err = ""
  /\ (ret.op = "getMerklePath" /\ ret.idx >= 0 /\ ret.idx < Len(leaves))
       => (ret.err = "" /\ \A k \in 1..Len(ret.siblings) : ret.siblings[k] # Undefined)

----------------------------------------------------------------------------
(* Strings and numbers of the codecs.                                      *)
(* A string is the sequence of its characters (one-character strings).     *)
(* A bigint is the sequence of its base-16 digits, most significant first, *)
(* without leading zeros (zero is <<0>>); a number is an integer, NaN the  *)
(* value below.                                                            *)

NaN == -1000000
SyntaxError == <<-5>>

HexChars == <<"0", "1", "2", "3", "4", "5", "6", "7",
              "8", "9", "a", "b", "c", "d", "e", "f">>
IsHexChar(c) == \E d \in 1..16 : HexChars[d] = c
HexVal(c) == (CHOOSE d \in 1..16 : HexChars[d] = c) - 1

(* bigint.toString(16) *)
BigIntToString16(v) == [i \in 1..Len(v) |-> HexChars[v[i] + 1]]

(* number.toString(16) *)
RECURSIVE NumDigits16(_)
NumDigits16(n) ==
  IF n < 16 THEN <<HexChars[n + 1]>>
  ELSE Append(NumDigits16(n \div 16), HexChars[(n % 16) + 1])

NumberToString16(n) ==
  IF n = NaN THEN <<"N", "a", "N">>
  ELSE IF n < 0 THEN <<"-">> \o NumDigits16(-n)
  ELSE NumDigits16(n)

(* parts.join(sep) *)
RECURSIVE join(_, _)
join(parts, sep) ==
  IF Len(parts) = 0 THEN << >>
  ELSE IF Len(parts) = 1 THEN parts[1]
  ELSE parts[1] \o <<sep>> \o join(Tail(parts), sep)

(* s.split(sep) *)
RECURSIVE SplitLoop(_, _, _, _, _)
SplitLoop(s, sep, i, cur, acc) ==
  IF i > Len(s) THEN Append(acc, cur)
  ELSE IF s[i] = sep THEN SplitLoop(s, sep, i + 1, << >>, Append(acc, cur))
  ELSE SplitLoop(s, sep, i + 1, Append(cur, s[i]), acc)

split(s, sep) == SplitLoop(s, sep, 1, << >>, << >>)

(* parseInt(s, radix): leading white space, a sign, for radix 16 an        *)
(* optional 0x, then the longest run of digits of the radix; whatever      *)
(* follows is ignored; NaN when there is no digit                          *)
DigitVal(c) == IF IsHexChar(c) THEN HexVal(c) ELSE 99

RECURSIVE SkipSpaces(_, _)
SkipSpaces(s, i) ==
  IF i <= Len(s) /\ s[i] = " " THEN SkipSpaces(s, i + 1) ELSE i

RECURSIVE ParseDigits(_, _, _, _, _)
ParseDigits(s, i, radix, acc, any) ==
  IF i <= Len(s) /\ DigitVal(s[i]) < radix
    THEN ParseDigits(s, i + 1, radix, acc * radix + DigitVal(s[i]), TRUE)
  ELSE IF any THEN acc ELSE NaN

parseInt(s, radix) ==
  LET i == SkipSpaces(s, 1)
      neg == i <= Len(s) /\ s[i] = "-"
      j == IF i <= Len(s) /\ s[i] \in {"-", "+"} THEN i + 1 ELSE i
      k == IF radix = 16 /\ j + 1 <= Len(s) /\ s[j] = "0" /\ s[j + 1] = "x"
             THEN j + 2 ELSE j
      m == ParseDigits(s, k, radix, 0, FALSE)
  IN  IF m = NaN THEN NaN ELSE IF neg THEN -m ELSE m

(* BigInt("0x" + s): white space around the literal is trimmed, the rest   *)
(* must be one or more hex digits, else a SyntaxError is thrown            *)
RECURSIVE TrimRight(_)
TrimRight(s) ==
  IF Len(s) > 0 /\ s[Len(s)] = " " THEN TrimRight(SubSeq(s, 1, Len(s) - 1)) ELSE s

RECURSIVE StripLeadingZeros(_)
StripLeadingZeros(v) ==
  IF Len(v) > 1 /\ v[1] = 0 THEN StripLeadingZeros(Tail(v)) ELSE v

BigIntFromHex(s) ==
  LET t == TrimRight(s)
  IN  IF Len(t) = 0 \/ \E i \in 1..Len(t) : ~IsHexChar(t[i]) THEN SyntaxError
      ELSE StripLeadingZeros([i \in 1..Len(t) |-> HexVal(t[i])])

----------------------------------------------------------------------------
(* crypto.ts: the note string, encodeNote and decodeNote *)

Tag == <<"o", "p", "a", "q", "u", "e">>
VersionString == <<"1">>

encodeNoteSwapped(note) ==
  join(<<Tag, VersionString,
         BigIntToString16(note.secret), BigIntToString16(note.nullifier),
         BigIntToString16(note.value), BigIntToString16(note.label),
         NumberToString16(note.leafIndex)>>, "-")
encodeNote(note) ==
  join(<<Tag, VersionString,
         BigIntToString16(note.nullifier), BigIntToString16(note.secret),
         BigIntToString16(note.value), BigIntToString16(note.label),
         NumberToString16(note.leafIndex)>>, "-")

NoNote == [nullifier |-> <<0>>, secret |-> <<0>>, value |-> <<0>>,
           label |-> <<0>>, leafIndex |-> 0]

(* the outcome of decodeNote: the note returned, or the error thrown *)
decodeNote(noteString) ==
  LET parts == split(noteString, "-")
  IN  IF Len(parts) # 7 \/ parts[1] # Tag
        THEN [err |-> "Invalid note format", note |-> NoNote]
      ELSE IF parseInt(parts[2], 10) # 1
        THEN [err |-> "Unsupported note version", note |-> NoNote]
      ELSE LET n == BigIntFromHex(parts[3])
               s == BigIntFromHex(parts[4])
               v == BigIntFromHex(parts[5])
               l == BigIntFromHex(parts[6])
           IN  IF SyntaxError \in {n, s, v, l}
                 THEN [err |-> "SyntaxError", note |-> NoNote]
               ELSE [err |-> "",
                     note |-> [nullifier |-> n, secret |-> s, value |-> v,
                               label |-> l,
                               leafIndex |-> parseInt(parts[7], 16)]]

(* validateNote(noteString): valid exactly when decodeNote returns (the    *)
(* commitment of any decoded note can be computed)                         *)
validateNote(noteString) == decodeNote(noteString).err = ""


----------------------------------------------------------------------------
(* Arithmetic on bigints (digit sequences) *)

SNARK_SCALAR_FIELD ==
  <<3, 0, 6, 4, 4, 14, 7, 2, 14, 1, 3, 1, 10, 0, 2, 9,
    11, 8, 5, 0, 4, 5, 11, 6, 8, 1, 8, 1, 5, 8, 5, 13,
    2, 8, 3, 3, 14, 8, 4, 8, 7, 9, 11, 9, 7, 0, 9, 1,
    4, 3, 14, 1, 15, 5, 9, 3, 15, 0, 0, 0, 0, 0, 0, 1>>

BigLess(a, b) ==
  \/ Len(a) < Len(b)
  \/ /\ Len(a) = Len(b)
     /\ \E i \in 1..Len(a) : a[i] < b[i] /\ \A j \in 1..(i - 1) : a[j] = b[j]

(* a - b for a >= b: digit i borrows when the digits of a after it make a *)
(* smaller number than those of b                                          *)
BigSub(a, b) ==
  LET n == Len(a)
      bb == [i \in 1..(n - Len(b)) |-> 0] \o b
      borrow(i) ==
        IF \E j \in (i + 1)..n :
             a[j] < bb[j] /\ \A k \in (i + 1)..(j - 1) : a[k] = bb[k]
          THEN 1 ELSE 0
  IN  StripLeadingZeros([i \in 1..n |-> (a[i] - bb[i] - borrow(i) + 16) % 16])

RECURSIVE BigMod(_, _)
BigMod(a, m) == IF BigLess(a, m) THEN a ELSE BigMod(BigSub(a, m), m)

(* the value a sequence of bytes holds, big-endian *)
BytesToBigInt(bytes) ==
  StripLeadingZeros([i \in 1..(2 * Len(bytes)) |->
                       IF i % 2 = 1 THEN bytes[(i + 1) \div 2] \div 16
                                    ELSE bytes[i \div 2] % 16])

----------------------------------------------------------------------------
(* zkproof.ts and crypto.ts: the byte encoders *)

padStart(s, n, c) ==
  IF Len(s) >= n THEN s ELSE [i \in 1..(n - Len(s)) |-> c] \o s

(* s.substr(start, len), start counted from 0 *)
substr(s, start, len) ==
  SubSeq(s, start + 1, IF start + len < Len(s) THEN start + len ELSE Len(s))

(* storing a number into a Uint8Array element *)
ToUint8(n) == IF n = NaN THEN 0 ELSE n % 256

(* new Uint8Array(n), and target.set(bytes, offset) *)
Uint8Array(n) == [i \in 1..n |-> 0]
SetAt(target, bytes, offset) ==
  [i \in 1..Len(target) |->
     IF i > offset /\ i <= offset + Len(bytes) THEN bytes[i - offset]
     ELSE target[i]]

(* fieldElementToBytes(value), bi the bigint BigInt(value) *)
fieldElementToBytes(bi) ==
  LET hex == padStart(BigIntToString16(bi), 64, "0")
  IN  [i \in 1..32 |-> ToUint8(parseInt(substr(hex, (i - 1) * 2, 2), 16))]

(* bigintToBuffer(value): Buffer.from(hex, "hex") takes the pairs of hex   *)
(* digits, a last odd digit is dropped                                     *)
bigintToBuffer(value) ==
  LET hex == padStart(BigIntToString16(value), 64, "0")
  IN  [i \in 1..(Len(hex) \div 2) |-> parseInt(substr(hex, (i - 1) * 2, 2), 16)]

(* bufferToBigint(buffer) *)
bufferToBigint(buffer) ==
  BigIntFromHex([i \in 1..(2 * Len(buffer)) |->
                   IF i % 2 = 1 THEN HexChars[(buffer[(i + 1) \div 2] \div 16) + 1]
                                ELSE HexChars[(buffer[i \div 2] % 16) + 1]])

g1PointToBytes(point) ==
  LET xBytes == fieldElementToBytes(point[1])
      yBytes == fieldElementToBytes(point[2])
  IN  SetAt(SetAt(Uint8Array(64), xBytes, 0), yBytes, 32)

g2PointToBytesSwapped(point) ==
  LET x0Bytes == fieldElementToBytes(point[1][1])
      x1Bytes == fieldElementToBytes(point[1][2])
      y0Bytes == fieldElementToBytes(point[2][1])
      y1Bytes == fieldElementToBytes(point[2][2])
  IN  SetAt(SetAt(SetAt(SetAt(Uint8Array(128), x1Bytes, 0), x0Bytes, 32),
                  y0Bytes, 64), y1Bytes, 96)
g2PointToBytes(point) ==
  LET x0Bytes == fieldElementToBytes(point[1][1])
      x1Bytes == fieldElementToBytes(point[1][2])
      y0Bytes == fieldElementToBytes(point[2][1])
      y1Bytes == fieldElementToBytes(point[2][2])
  IN  SetAt(SetAt(SetAt(SetAt(Uint8Array(128), x0Bytes, 0), x1Bytes, 32),
                  y0Bytes, 64), y1Bytes, 96)

serializeProofForSoroban(proof) ==
  LET aBytes == g1PointToBytes(proof.pi_a)
      bBytes == g2PointToBytes(proof.pi_b)
      cBytes == g1PointToBytes(proof.pi_c)
  IN  SetAt(SetAt(SetAt(Uint8Array(256), aBytes, 0), bBytes, 64), cBytes, 192)

(* view.setUint32(0, n, false) *)
Uint32BE(n) ==
  <<(n \div 16777216) % 256, (n \div 65536) % 256, (n \div 256) % 256, n % 256>>

(* where signal i goes: bytes.set(fieldBytes, 4 + i * 32) *)
SignalOffsetNoPrefix(i) == i * 32
SignalOffset(i) == 4 + i * 32

RECURSIVE SignalsLoop(_, _, _)
SignalsLoop(bytes, publicSignals, i) ==
  IF i >= Len(publicSignals) THEN bytes
  ELSE SignalsLoop(SetAt(bytes, fieldElementToBytes(publicSignals[i + 1]),
                         SignalOffset(i)),
                   publicSignals, i + 1)

serializePublicSignalsForSoroban(publicSignals) ==
  LET bytes == SetAt(Uint8Array(4 + Len(publicSignals) * 32),
                     Uint32BE(Len(publicSignals)), 0)
  IN  SignalsLoop(bytes, publicSignals, 0)


----------------------------------------------------------------------------
(* The decoders of the verifier side (specification section 4.5): fixed    *)
(* lengths, nothing truncated or padded                                    *)

ProofLengthAtLeast(buf) == Len(buf) >= 256
ProofLengthOk(buf) == Len(buf) = 256

(* the eight coordinates A.x, A.y, B.x0, B.x1, B.y0, B.y1, C.x, C.y *)
decodeProof(buf) ==
  IF ~ProofLengthOk(buf) THEN [err |-> "DecodeError", coords |-> << >>]
  ELSE [err |-> "",
        coords |-> [k \in 1..8 |->
                      BytesToBigInt(SubSeq(buf, 32 * (k - 1) + 1, 32 * k))]]

Uint32FromBE(b) == ((b[1] * 256 + b[2]) * 256 + b[3]) * 256 + b[4]

decodePublicSignals(buf) ==
  IF Len(buf) < 4 THEN [err |-> "DecodeError", signals |-> << >>]
  ELSE LET n == Uint32FromBE(SubSeq(buf, 1, 4))
       IN  IF Len(buf) # 4 + 32 * n
             THEN [err |-> "DecodeError", signals |-> << >>]
           ELSE [err |-> "",
                 signals |-> [k \in 1..n |->
                    BytesToBigInt(SubSeq(buf, 4 + 32 * (k - 1) + 1, 4 + 32 * k))]]

ProofCoords(proof) ==
  <<proof.pi_a[1], proof.pi_a[2],
    proof.pi_b[1][1], proof.pi_b[1][2], proof.pi_b[2][1], proof.pi_b[2][2],
    proof.pi_c[1], proof.pi_c[2]>>

----------------------------------------------------------------------------
(* The hash and codec functions under test: inputs and calls *)

MaxInputs == 4
MaxSignals == 4
MaxCut == 2

FIXED_AMOUNT_STROOPS == <<3, 11, 9, 10, 12, 10, 0, 0>>

(* field elements, and integers that are not: the modulus, the modulus    *)
(* plus one, 2^256 - 1 and 2^256                                           *)
FieldSamples ==
  {<<0>>, <<1>>, <<1, 0, 0>>, FIXED_AMOUNT_STROOPS,
   [SNARK_SCALAR_FIELD EXCEPT ![64] = 0]}
OutOfField ==
  {SNARK_SCALAR_FIELD, [SNARK_SCALAR_FIELD EXCEPT ![64] = 2],
   [i \in 1..64 |-> 15], <<1>> \o [i \in 1..64 |-> 0]}
BigSamples == FieldSamples \cup OutOfField

IsFieldElement(v) == BigLess(v, SNARK_SCALAR_FIELD)

(* inputs of poseidonHash and computeCommitment (terms) *)
HashVals == {<<1>>, <<2>>}
HashInputs == UNION {[1..n -> HashVals] : n \in 1..MaxInputs}

(* notes to encode *)
NoteBigs == {<<0>>, <<10>>, <<1, 0>>, FIXED_AMOUNT_STROOPS}
NoteSamples ==
  [nullifier : NoteBigs, secret : NoteBigs,
   value : {<<0>>, FIXED_AMOUNT_STROOPS}, label : {<<15>>, <<1, 0>>},
   leafIndex : {0, 1, 10, 16, 255}]

(* strings to decode: a well-formed note string, and the strings that     *)
(* differ from it in one field, or have a field less or more               *)
GoodParts == <<Tag, VersionString, <<"a">>, <<"1", "0">>, <<"6", "4">>,
               <<"f">>, <<"2">>>>
OddFields ==
  {<< >>, <<"g">>, <<"1", "g">>, <<"2">>, <<"0", "1">>, <<"1", " ">>,
   <<" ", "1">>, <<"0", "x", "1">>, <<"1", ".", "5">>}
NoteStrings ==
  {join(GoodParts, "-"), join(SubSeq(GoodParts, 1, 6), "-"),
   join(Append(GoodParts, <<"3">>), "-")}
  \cup {join([GoodParts EXCEPT ![k] = f], "-") : k \in 1..7, f \in OddFields}

(* proofs: all coordinates a but the k-th, which is b *)
ProofOf(a, b, k) ==
  LET c(i) == IF i = k THEN b ELSE a
  IN  [pi_a |-> <<c(1), c(2), <<1>>>>,
       pi_b |-> << <<c(3), c(4)>>, <<c(5), c(6)>>, <<<<1>>, <<0>>>> >>,
       pi_c |-> <<c(7), c(8), <<1>>>>]

SignalsOf(n, a, b, k) == [i \in 1..n |-> IF i = k THEN b ELSE a]

(* buffers to decode: an encoding, cut short, extended, or empty *)
CutAndExtended(buf) ==
  {buf, << >>}
  \cup {SubSeq(buf, 1, Len(buf) - t) : t \in {u \in 1..MaxCut : u <= Len(buf)}}
  \cup {buf \o [i \in 1..t |-> 0] : t \in 1..MaxCut}
  \cup {SubSeq(buf, 1, Len(buf) - 32) : t \in {u \in {32} : u <= Len(buf)}}
  \cup {buf \o [i \in 1..32 |-> 0]}

ProofBuffers ==
  UNION {CutAndExtended(serializeProofForSoroban(ProofOf(<<1>>, b, 3))) :
           b \in {<<1, 0, 0>>, FIXED_AMOUNT_STROOPS}}
SignalBuffers ==
  UNION {CutAndExtended(serializePublicSignalsForSoroban(
                          SignalsOf(n, <<1>>, FIXED_AMOUNT_STROOPS, 1))) :
           n \in 0..MaxSignals}

(* bigint.toString() and number.toString(): the decimal digits.           *)
(* DivTen folds the base-16 digits of v into those of v \div 10 (leading   *)
(* zeros included) and the remainder v % 10                                *)
RECURSIVE DivTen(_, _, _, _)
DivTen(v, i, rem, q) ==
  IF i > Len(v) THEN [q |-> q, rem |-> rem]
  ELSE DivTen(v, i + 1, (rem * 16 + v[i]) % 10,
              Append(q, (rem * 16 + v[i]) \div 10))

RECURSIVE BigIntToString(_)
BigIntToString(v) ==
  LET r == DivTen(v, 1, 0, << >>)
      q == StripLeadingZeros(r.q)
  IN  IF q = <<0>> THEN <<HexChars[r.rem + 1]>>
      ELSE Append(BigIntToString(q), HexChars[r.rem + 1])

RECURSIVE NumberToString(_)
NumberToString(n) ==
  IF n < 0 THEN <<"-">> \o NumberToString(-n)
  ELSE IF n < 10 THEN <<HexChars[n + 1]>>
  ELSE Append(NumberToString(n \div 10), HexChars[(n % 10) + 1])

(* zkproof.ts: createWithdrawCircuitInput(params). The state siblings are  *)
(* filled with BigInt(0) up to 8 and then cut to 8 (length = 8), the label *)
(* siblings are filled with BigInt(0) up to 2 and not cut; every value is  *)
(* then written in decimal                                                 *)
createWithdrawCircuitInput(params) ==
  LET pushZeros(list, n) ==
        IF Len(list) < n THEN list \o [i \in 1..(n - Len(list)) |-> <<0>>]
        ELSE list
      stateSiblings == SubSeq(pushZeros(params.stateSiblings, 8), 1, 8)
      labelSiblings == pushZeros(params.labelSiblings, 2)
  IN  [withdrawnValue |-> BigIntToString(params.withdrawnValue),
       stateRoot |-> BigIntToString(params.stateRoot),
       associationRoot |-> BigIntToString(params.associationRoot),
       label |-> BigIntToString(params.label),
       value |-> BigIntToString(params.value),
       nullifier |-> BigIntToString(params.nullifier),
       secret |-> BigIntToString(params.secret),
       stateSiblings |->
         [i \in 1..Len(stateSiblings) |-> BigIntToString(stateSiblings[i])],
       stateIndex |-> NumberToString(params.stateIndex),
       labelIndex |-> NumberToString(params.labelIndex),
       labelSiblings |->
         [i \in 1..Len(labelSiblings) |-> BigIntToString(labelSiblings[i])]]

(* sibling lists of every length up to beyond the depth, and of the        *)
(* documented depth 20; none of their entries is zero                      *)
SiblingList(n, first) == [i \in 1..n |-> <<((first + i) % 15) + 1>>]
StateSiblingLists ==
  {SiblingList(n, first) :
     n \in (0..(TREE_DEPTH + MaxCut)) \cup {DOC_TREE_DEPTH}, first \in {0, 9}}
LabelSiblingLists ==
  {SiblingList(n, first) : n \in 0..(ASSOC_DEPTH + MaxCut), first \in {3}}

CircuitParams ==
  [withdrawnValue : {FIXED_AMOUNT_STROOPS}, stateRoot : {<<1, 0>>},
   associationRoot : {<<0>>, <<1, 1>>}, label : {<<15>>},
   value : {FIXED_AMOUNT_STROOPS}, nullifier : {<<10>>}, secret : {<<1, 0, 0>>},
   stateSiblings : StateSiblingLists, stateIndex : {0, 12},
   labelIndex : {0}, labelSiblings : LabelSiblingLists]

(* the relayer of the documentation (RelayerService): validateProofFormat *)
(* throws on a proof that is not 192 bytes and on signals that are not     *)
(* 128 bytes; "" when it returns                                           *)
validateProofFormat(request) ==
  IF Len(request.proofBytes) # 192 THEN "INVALID_PROOF_LENGTH"
  ELSE IF Len(request.pubSignalsBytes) # 128 THEN "INVALID_PUB_SIGNALS_LENGTH"
  ELSE ""

(* bytes.slice(start, end) *)
slice(bytes, start, end) ==
  SubSeq(bytes, start + 1, IF end < Len(bytes) THEN end ELSE Len(bytes))

(* the nullifier hash checkNullifier and the indexer's handleWithdrawal     *)
(* take from the signals: pubSignalsBytes.slice(0, 32)                      *)
extractNullifierHash(pubSignalsBytes) == slice(pubSignalsBytes, 0, 32)

(* the client serializes a proof and its signals and hands them to         *)
(* submitWithdrawal, which validates the format and reads the nullifier    *)
SubmitWithdrawal(proof, publicSignals) ==
  LET request == [proofBytes |-> serializeProofForSoroban(proof),
                  pubSignalsBytes |-> serializePublicSignalsForSoroban(publicSignals)]
  IN  cx' = [op |-> "submitWithdrawal", proof |-> proof,
             publicSignals |-> publicSignals, request |-> request,
             error |-> validateProofFormat(request),
             nullifierHash |-> extractNullifierHash(request.pubSignalsBytes)]

PoseidonHash(inputs) ==
  cx' = [op |-> "poseidonHash", inputs |-> inputs, out |-> poseidonHash(inputs)]

ComputeCommitment(a, b) ==
  cx' = [op |-> "computeCommitment", a |-> a, b |-> b,
         outA |-> computeCommitment(a[1], a[2], a[3], a[4]),
         outB |-> computeCommitment(b[1], b[2], b[3], b[4])]

(* encodeNote(note), decodeNote of the string, encodeNote of the note      *)
(* decoded, and decodeNote of the string without its last field            *)
EncodeDecodeNote(note) ==
  LET str == encodeNote(note)
      back == decodeNote(str)
  IN  cx' = [op |-> "encodeNote", note |-> note, str |-> str, back |-> back,
             again |-> encodeNote(back.note),
             six |-> decodeNote(join(SubSeq(split(str, "-"), 1, 6), "-"))]

DecodeNote(str) ==
  cx' = [op |-> "decodeNote", str |-> str, out |-> decodeNote(str),
         valid |-> validateNote(str)]

FieldElementToBytes(v) ==
  cx' = [op |-> "fieldElementToBytes", v |-> v,
         bytes |-> fieldElementToBytes(v), buffer |-> bigintToBuffer(v)]

SerializeProof(proof) ==
  LET bytes == serializeProofForSoroban(proof)
  IN  cx' = [op |-> "serializeProofForSoroban", proof |-> proof,
             bytes |-> bytes, back |-> decodeProof(bytes)]

SerializePublicSignals(publicSignals) ==
  LET bytes == serializePublicSignalsForSoroban(publicSignals)
  IN  cx' = [op |-> "serializePublicSignalsForSoroban",
             publicSignals |-> publicSignals,
             bytes |-> bytes, back |-> decodePublicSignals(bytes)]

DecodeProof(buf) ==
  cx' = [op |-> "decodeProof", buf |-> buf, out |-> decodeProof(buf)]

DecodePublicSignals(buf) ==
  cx' = [op |-> "decodePublicSignals", buf |-> buf,
         out |-> decodePublicSignals(buf)]

(* the function has no throw and no failing call: err stays empty *)
CreateWithdrawCircuitInput(params) ==
  cx' = [op |-> "createWithdrawCircuitInput", params |-> params, err |-> "",
         out |-> createWithdrawCircuitInput(params)]

InitCodec ==
  /\ depth = TREE_DEPTH
  /\ leaves = << >>
  /\ ZERO_VALUES = Null
  /\ ret = NoRet
  /\ PoolGenesis(TREE_DEPTH)
  /\ cx = NoCx
  /\ hret = NoHret
  /\ nodes = NoNodes

(* each run is one call: the functions are pure, their results do not     *)
(* depend on earlier calls                                                *)
NextCodec ==
  \/ /\ cx = NoCx
     /\ \E inputs \in HashInputs :
             PoseidonHash(inputs) /\ UNCHANGED <<treeVars, poolVars, hret, nodes>>
  \/ /\ cx = NoCx
     /\ \E a, b \in [1..4 -> HashVals] :
             ComputeCommitment(a, b) /\ UNCHANGED <<treeVars, poolVars, hret, nodes>>
  \/ /\ cx = NoCx
     /\ \E note \in NoteSamples :
             EncodeDecodeNote(note) /\ UNCHANGED <<treeVars, poolVars, hret, nodes>>
  \/ /\ cx = NoCx
     /\ \E str \in NoteStrings :
             DecodeNote(str) /\ UNCHANGED <<treeVars, poolVars, hret, nodes>>
  \/ /\ cx = NoCx
     /\ \E v \in BigSamples :
             FieldElementToBytes(v) /\ UNCHANGED <<treeVars, poolVars, hret, nodes>>
  \/ /\ cx = NoCx
     /\ \E a, b \in BigSamples, k \in 1..8 :
             SerializeProof(ProofOf(a, b, k)) /\ UNCHANGED <<treeVars, poolVars, hret, nodes>>
  \/ /\ cx = NoCx
     /\ \E n \in 0..MaxSignals, a, b \in BigSamples, k \in 1..MaxSignals :
             SerializePublicSignals(SignalsOf(n, a, b, k))
               /\ UNCHANGED <<treeVars, poolVars, hret, nodes>>
  \/ /\ cx = NoCx
     /\ \E buf \in ProofBuffers :
             DecodeProof(buf) /\ UNCHANGED <<treeVars, poolVars, hret, nodes>>
  \/ /\ cx = NoCx
     /\ \E buf \in SignalBuffers :
             DecodePublicSignals(buf) /\ UNCHANGED <<treeVars, poolVars, hret, nodes>>
  \/ /\ cx = NoCx
     /\ \E b \in {<<1, 0, 0>>, FIXED_AMOUNT_STROOPS}, n \in {1, 4},
           h \in {<<1>>, <<1, 0, 0>>, [i \in 1..63 |-> 15]} :
             SubmitWithdrawal(ProofOf(<<1>>, b, 3), SignalsOf(n, FIXED_AMOUNT_STROOPS, h, 1))
               /\ UNCHANGED <<treeVars, poolVars, hret, nodes>>
  \/ /\ cx = NoCx
     /\ \E params \in CircuitParams :
             CreateWithdrawCircuitInput(params)
               /\ UNCHANGED <<treeVars, poolVars, hret, nodes>>

SpecCodec == InitCodec /\ [][NextCodec]_vars


----------------------------------------------------------------------------
(* Claims about the hash and codec functions, checked under SpecCodec *)

(* the left fold H(...H(H(in[1], in[2]), in[3])..., in[k]) of the first k  *)
(* inputs, k >= 2, and the right-nested bracketing of the inputs from i on *)
RECURSIVE LeftFold(_, _)
LeftFold(in, k) ==
  IF k = 2 THEN poseidon2(in[1], in[2])
  ELSE poseidon2(LeftFold(in, k - 1), in[k])

RECURSIVE RightFold(_, _)
RightFold(in, i) ==
  IF i = Len(in) - 1 THEN poseidon2(in[i], in[i + 1])
  ELSE poseidon2(in[i], RightFold(in, i + 1))

(* C11: poseidonHash of more than two inputs is the left fold of the       *)
(* two-input primitive, of one or two inputs the primitive itself, and     *)
(* never the right-nested bracketing                                       *)
C11_LeftFoldOnly ==
  cx.op = "poseidonHash" =>
    LET in == cx.inputs
        k == Len(in)
    IN  /\ k = 1 => cx.out = poseidon1(in[1])
        /\ k = 2 => cx.out = poseidon2(in[1], in[2])
        /\ k > 2 => (cx.out = LeftFold(in, k) /\ cx.out # RightFold(in, 1))

C11_Witness ==
  /\ cx.op = "poseidonHash" /\ Len(cx.inputs) = 4
  /\ cx.inputs[1] # cx.inputs[2]
  /\ cx.out = poseidon2(poseidon2(poseidon2(cx.inputs[1], cx.inputs[2]),
                                  cx.inputs[3]), cx.inputs[4])

(* C12: computeCommitment(value, label, nullifier, secret) is              *)
(* H(H(value, label), H(nullifier, secret)); equal arguments give equal    *)
(* commitments and different arguments different ones                      *)
C12_CommitmentFormula ==
  cx.op = "computeCommitment" =>
    /\ cx.outA = poseidon2(poseidon2(cx.a[1], cx.a[2]), poseidon2(cx.a[3], cx.a[4]))
    /\ cx.outB = poseidon2(poseidon2(cx.b[1], cx.b[2]), poseidon2(cx.b[3], cx.b[4]))
    /\ (cx.a = cx.b) <=> (cx.outA = cx.outB)

C12_Witness ==
  /\ cx.op = "computeCommitment"
  /\ cx.a[4] # cx.b[4] /\ \A i \in 1..3 : cx.a[i] = cx.b[i]
  /\ cx.outA # cx.outB

(* C13: decodeNote(encodeNote(note)) is the note, encoding the decoded     *)
(* note gives the string again, and a string of 6 fields is refused with   *)
(* the invalid-format error                                                *)
C13_NoteRoundTrip ==
  /\ cx.op = "encodeNote" =>
       /\ cx.back.err = "" /\ cx.back.note = cx.note
       /\ cx.again = cx.str
       /\ cx.six.err = "Invalid note format"
  /\ (cx.op = "decodeNote" /\ Len(split(cx.str, "-")) = 6) =>
       (cx.out.err = "Invalid note format" /\ ~cx.valid)

C13_Witness ==
  /\ cx.op = "encodeNote"
  /\ cx.note.leafIndex = 255 /\ cx.note.nullifier = FIXED_AMOUNT_STROOPS
  /\ cx.note.secret = <<10>>
  /\ cx.back.note = cx.note /\ cx.six.err = "Invalid note format"

(* a note string of the strict schema: 7 fields, the tag, the version      *)
(* field exactly "1", five non-empty fields of hex digits                  *)
WellFormedNoteString(str) ==
  LET parts == split(str, "-")
  IN  /\ Len(parts) = 7
      /\ parts[1] = Tag
      /\ parts[2] = VersionString
      /\ \A k \in 3..7 :
           Len(parts[k]) > 0 /\ \A i \in 1..Len(parts[k]) : IsHexChar(parts[k][i])

(* C14: decodeNote refuses every string that is not of the strict schema   *)
(* (and validateNote does not report it valid)                             *)
C14_StrictDecode ==
  (cx.op = "decodeNote" /\ ~WellFormedNoteString(cx.str))
    => (cx.out.err # "" /\ ~cx.valid)

(* what of C14 the code does keep: a wrong field count or tag, and an      *)
(* empty or non-hex nullifier, secret, value or label, are refused         *)
DecodeRefusesCountTagAndBigints ==
  cx.op = "decodeNote" =>
    LET parts == split(cx.str, "-")
    IN  (\/ Len(parts) # 7
         \/ parts[1] # Tag
         \/ \E k \in 3..6 :
              \/ Len(parts[k]) = 0
              \/ \E i \in 1..Len(parts[k]) : ~IsHexChar(parts[k][i]) /\ parts[k][i] # " ")
        => cx.out.err # ""

(* C15: the serialized proof is 256 bytes, and for coordinates that are    *)
(* field elements the eight 32-byte slices hold, big-endian, A.x, A.y,     *)
(* B.x0, B.x1, B.y0, B.y1, C.x, C.y                                        *)
C15_ProofLayout ==
  cx.op = "serializeProofForSoroban" =>
    /\ Len(cx.bytes) = 256
    /\ (\A k \in 1..8 : IsFieldElement(ProofCoords(cx.proof)[k]))
         => \A k \in 1..8 :
              BytesToBigInt(SubSeq(cx.bytes, 32 * (k - 1) + 1, 32 * k))
                = ProofCoords(cx.proof)[k]

C15_Witness ==
  /\ cx.op = "serializeProofForSoroban"
  /\ \A k \in 1..8 : IsFieldElement(ProofCoords(cx.proof)[k])
  /\ cx.proof.pi_b[1][1] = FIXED_AMOUNT_STROOPS /\ cx.proof.pi_b[1][2] = <<1>>
  /\ BytesToBigInt(SubSeq(cx.bytes, 65, 96)) = FIXED_AMOUNT_STROOPS

(* C16: the serialized signals are 4 + 32 n bytes: n as big-endian u32,    *)
(* then the signals in input order, each as a 32-byte big-endian value     *)
C16_SignalsLayout ==
  cx.op = "serializePublicSignalsForSoroban" =>
    LET n == Len(cx.publicSignals)
    IN  /\ Len(cx.bytes) = 4 + 32 * n
        /\ Uint32FromBE(SubSeq(cx.bytes, 1, 4)) = n
        /\ \A i \in 1..n :
             Len(cx.publicSignals[i]) <= 64 =>
               BytesToBigInt(SubSeq(cx.bytes, 4 + 32 * (i - 1) + 1, 4 + 32 * i))
                 = cx.publicSignals[i]

C16_Witness ==
  /\ cx.op = "serializePublicSignalsForSoroban"
  /\ Len(cx.publicSignals) = 4 /\ Len(cx.bytes) = 132
  /\ cx.publicSignals[1] = <<1, 0, 0>> /\ cx.publicSignals[3] = FIXED_AMOUNT_STROOPS
  /\ BytesToBigInt(SubSeq(cx.bytes, 5, 36)) = <<1, 0, 0>>
  /\ BytesToBigInt(SubSeq(cx.bytes, 69, 100)) = FIXED_AMOUNT_STROOPS

(* C17: the 32 bytes emitted for any non-negative integer v hold           *)
(* v mod p, a value below the modulus p                                    *)
C17_ReducedModField ==
  cx.op = "fieldElementToBytes" =>
    /\ Len(cx.bytes) = 32
    /\ BytesToBigInt(cx.bytes) = BigMod(cx.v, SNARK_SCALAR_FIELD)
    /\ IsFieldElement(BytesToBigInt(cx.bytes))
    /\ Len(cx.buffer) = 32
    /\ BytesToBigInt(cx.buffer) = BigMod(cx.v, SNARK_SCALAR_FIELD)

(* what of C17 the code does keep: field elements are emitted unchanged *)
FieldElementsEmittedExactly ==
  (cx.op = "fieldElementToBytes" /\ IsFieldElement(cx.v)) =>
    /\ Len(cx.bytes) = 32 /\ BytesToBigInt(cx.bytes) = cx.v
    /\ cx.buffer = cx.bytes /\ bufferToBigint(cx.buffer) = cx.v

----------------------------------------------------------------------------
(* privacyPool.ts: the client handlers. The file holds two versions of     *)
(* handleDeposit and of handleWithdraw (lines 65-410 and 543-846); the     *)
(* version is an argument of the actions.                                  *)

Versions == {1, 2}

(* what tx.signAndSend() hands back as result.result: a number, a Result   *)
(* object (Ok or Err), an object with a value member, nothing, or an       *)
(* object of none of these shapes; or signAndSend throws                   *)
ResultShapes == {"number", "result", "value", "undefined", "opaque", "throws"}

(* step 7 of handleDeposit, first version: leafIndex read from the result, *)
(* 0 when it cannot be read; the deposit is reported as a success          *)
DepositOutcomeV1(shape, accepted, index) ==
  [success |-> TRUE,
   leafIndex |-> IF shape = "number" THEN (IF index # 0 THEN index ELSE 0)
                 ELSE IF shape = "result" THEN (IF accepted THEN index ELSE 0)
                 ELSE IF shape = "value" THEN index
                 ELSE 0]

(* second version: result.result?.isOk() ? result.result.unwrap() : 0; a   *)
(* result without isOk throws a TypeError, caught as a failure             *)
DepositOutcomeV2(shape, accepted, index) ==
  IF shape \in {"number", "value", "opaque"}
    THEN [success |-> FALSE, leafIndex |-> -1]
  ELSE [success |-> TRUE,
        leafIndex |-> IF shape = "result" /\ accepted THEN index ELSE 0]

NoHandle == [op |-> "none", version |-> 0, note |-> 0, success |-> FALSE,
             error |-> "", shape |-> "", accepted |-> FALSE, index |-> -1,
             leafIndex |-> -1, submitted |-> FALSE, real |-> FALSE,
             proofLen |-> -1, signals |-> << >>,
             stateRoot |-> Undefined, associationRoot |-> Undefined,
             stateIndex |-> -1, stateSiblings |-> << >>]

(* handleDeposit(fromAddress, signTransaction) for a fresh note n *)
HandleDeposit(version, n, shape) ==
  LET index == Len(commitments)
      accepted == ~TreeFull(index, pool_depth)
      out == IF version = 1 THEN DepositOutcomeV1(shape, accepted, index)
                            ELSE DepositOutcomeV2(shape, accepted, index)
  IN  /\ UNCHANGED <<treeVars, cx, nodes>>
      /\ IF shape = "throws"
           THEN /\ UNCHANGED poolVars
                /\ hret' = [NoHandle EXCEPT !.op = "handleDeposit",
                              !.version = version, !.note = n, !.shape = shape,
                              !.error = "Error"]
           ELSE /\ accepted \/ shape \in {"result", "undefined", "opaque"}
                /\ Deposit(Depositor, NoteCommitment(n))
                /\ hret' = [NoHandle EXCEPT !.op = "handleDeposit",
                              !.version = version, !.note = n, !.shape = shape,
                              !.submitted = TRUE,
                              !.accepted = accepted,
                              !.index = IF accepted THEN index ELSE -1,
                              !.success = out.success,
                              !.leafIndex = out.leafIndex,
                              !.error = IF out.success THEN "" ELSE "TypeError"]

(* getMockAssociationProof(label).associationRoot *)
getMockAssociationRoot(label, zeros) ==
  poseidonHash(<<poseidonHash(<<label, At(zeros, 0)>>), At(zeros, 1)>>)

(* snarkjs.groth16.fullProve finds a witness: the commitment is under the  *)
(* state root, and the association root is zero or the root computed from  *)
(* the label and its siblings                                              *)
CircuitSatisfied(commitment, stateIndex, stateSiblings, stateRoot, associationRoot, computedRoot) ==
  /\ verifyProof(TREE_DEPTH, commitment, stateIndex, stateSiblings, stateRoot) = "true"
  /\ associationRoot = ZeroRoot \/ associationRoot = computedRoot

(* the Groth16 proof the prover returns (its coordinates are not modelled) *)
GeneratedProof == ProofOf(<<1>>, <<1, 0, 0>>, 3)

(* a note string that decodeNote refuses *)
MalformedNote == 0

(* the leaf index a note string carries: of the deposit, or any other *)
StoredLeafIndexes == {0, 1}

(* the loop that looks for the commitment in the fetched list: the first   *)
(* position holding it, -1 when none does                                  *)
findCommitmentLast(list, commitment) ==
  LET found == {i \in 1..Len(list) : list[i] = commitment}
  IN  IF found = {} THEN -1
      ELSE (CHOOSE i \in found : \A j \in found : i >= j) - 1
findCommitment(list, commitment) ==
  LET found == {i \in 1..Len(list) : list[i] = commitment}
  IN  IF found = {} THEN -1
      ELSE (CHOOSE i \in found : \A j \in found : i <= j) - 1

(* handleWithdraw(noteString, toAddress, signTransaction) for the note n,  *)
(* whose string carries some leaf index leafIndex                          *)
HandleWithdraw(version, n, to) ==
  LET commitment == NoteCommitment(n)
      foundIndex == findCommitment(commitments, commitment)
      zeros == initializeZeroValues(ZERO_VALUES)
      siblings == getMerklePath(commitments, TREE_DEPTH, zeros, foundIndex)
      root == computeRoot(commitments, TREE_DEPTH, zeros)
      associationRoot == association_root
      mockRoot == getMockAssociationRoot(NoteLabel(n), zeros)
      nullifierHash == NoteNullifierHash(n)
      satisfied == CircuitSatisfied(commitment, foundIndex, siblings, root,
                                    associationRoot, mockRoot)
      early == n \notin Notes \/ Len(commitments) = 0 \/ foundIndex = -1
  IN  /\ UNCHANGED <<depth, leaves, ret, cx, nodes>>
      /\ ZERO_VALUES' = IF early THEN ZERO_VALUES ELSE zeros
      /\ \E leafIndex \in StoredLeafIndexes :
           LET fail(msg) ==
                 [NoHandle EXCEPT !.op = "handleWithdraw", !.version = version,
                                  !.note = n, !.leafIndex = leafIndex,
                                  !.error = msg]
           IN
           IF n \notin Notes
             (* a string decodeNote refuses: the throw is caught *)
             THEN /\ UNCHANGED poolVars
                  /\ hret' = fail("Invalid note format")
           ELSE IF Len(commitments) = 0
             THEN /\ UNCHANGED poolVars
                  /\ hret' = fail("No deposits found in contract")
           ELSE IF foundIndex = -1
             THEN /\ UNCHANGED poolVars
                  /\ hret' = fail("Commitment not found in tree")
           ELSE IF version = 1
             THEN IF associationRoot = ZeroRoot
                    THEN /\ UNCHANGED poolVars
                         /\ hret' = [fail("Association root not set")
                                       EXCEPT !.associationRoot = associationRoot]
                  ELSE
                    (* demo mode: an empty proof, one signal *)
                    LET e == WithdrawError(FALSE, nullifierHash, 0,
                                           Undefined, Undefined)
                    IN  /\ Withdraw(to, FALSE, nullifierHash, 0,
                                    Undefined, Undefined)
                        /\ hret' = [NoHandle EXCEPT
                             !.op = "handleWithdraw", !.version = version,
                             !.note = n, !.leafIndex = leafIndex,
                             !.stateIndex = foundIndex,
                             !.stateSiblings = siblings,
                             !.submitted = TRUE,
                             !.real = FALSE, !.proofLen = 0,
                             !.stateRoot = root,
                             !.associationRoot = associationRoot,
                             !.signals = <<nullifierHash>>,
                             !.success = (e = ""), !.error = e]
           ELSE IF ~satisfied
             THEN /\ UNCHANGED poolVars
                  /\ hret' = [fail("Failed to generate ZK proof") EXCEPT
                                !.stateIndex = foundIndex,
                                !.stateSiblings = siblings,
                                !.stateRoot = root,
                                !.associationRoot = associationRoot]
           ELSE
             LET e == WithdrawError(TRUE, nullifierHash, FIXED_AMOUNT,
                                    root, associationRoot)
             IN  /\ Withdraw(to, TRUE, nullifierHash, FIXED_AMOUNT,
                             root, associationRoot)
                 /\ hret' = [NoHandle EXCEPT
                      !.op = "handleWithdraw", !.version = version,
                      !.note = n, !.leafIndex = leafIndex,
                      !.stateIndex = foundIndex,
                      !.stateSiblings = siblings,
                      !.submitted = TRUE, !.real = TRUE,
                      !.stateRoot = root,
                      !.associationRoot = associationRoot,
                      !.proofLen = Len(serializeProofForSoroban(GeneratedProof)),
                      !.signals = <<nullifierHash, <<FIXED_AMOUNT>>, root,
                                    associationRoot>>,
                      !.success = (e = ""), !.error = e]

(* the pool the handlers talk to: of depth 1 (it fills up) or TREE_DEPTH *)
ClientPoolDepths == {1, TREE_DEPTH}

InitClient ==
  /\ \E d \in ClientPoolDepths : PoolGenesis(d)
  /\ depth = TREE_DEPTH
  /\ leaves = << >>
  /\ ZERO_VALUES = Null
  /\ ret = NoRet
  /\ cx = NoCx
  /\ hret = NoHret
  /\ nodes = NoNodes

NextClient ==
  \/ \E version \in Versions, n \in Notes, shape \in ResultShapes :
       HandleDeposit(version, n, shape)
  \/ \E version \in Versions, n \in Notes \cup {MalformedNote} :
       HandleWithdraw(version, n, "user")
  \/ \E root \in AssociationRoots :
       SetAssociationRoot(ADMIN, root) /\ UNCHANGED <<treeVars, cx, nodes, hret>>

SpecClient == InitClient /\ [][NextClient]_vars

----------------------------------------------------------------------------
(* Claims about the client handlers, checked under SpecClient *)

(* C19: every withdraw call handleWithdraw submits carries a generated     *)
(* proof of 256 bytes and the four signals nullifierHash, withdrawnValue,  *)
(* stateRoot, associationRoot in this order                                *)
C19_RealProofSubmitted ==
  (hret.op = "handleWithdraw" /\ hret.submitted) =>
    /\ hret.real /\ hret.proofLen = 256
    /\ Len(hret.signals) = 4
    /\ hret.signals[1] = NoteNullifierHash(hret.note)
    /\ hret.signals[2] = <<FIXED_AMOUNT>>
    /\ hret.signals[3] = hret.stateRoot
    /\ hret.signals[4] = hret.associationRoot

(* what of C19 the second version keeps *)
ProverVersionSubmitsRealProof ==
  (hret.op = "handleWithdraw" /\ hret.submitted /\ hret.version = 2) =>
    /\ hret.real /\ hret.proofLen = 256
    /\ hret.signals = <<NoteNullifierHash(hret.note), <<FIXED_AMOUNT>>,
                        hret.stateRoot, hret.associationRoot>>

(* C20: handleDeposit reports success only when the contract accepted the  *)
(* deposit and returned a leaf index, and the leafIndex of the note is     *)
(* that index                                                              *)
C20_DepositSuccessIsAccepted ==
  (hret.op = "handleDeposit" /\ hret.success) =>
    (hret.accepted /\ hret.leafIndex = hret.index)

(* what of C20 the code keeps: an accepted deposit whose result is read as *)
(* an Ok result or as a number carries the returned index                  *)
DepositOkResultKeepsIndex ==
  (hret.op = "handleDeposit" /\ hret.success /\ hret.accepted
     /\ (hret.shape = "result" \/ (hret.shape = "number" /\ hret.version = 1)))
    => hret.leafIndex = hret.index

----------------------------------------------------------------------------
(* The holder of a note runs its withdraw as a sequence of awaited steps,  *)
(* so that deposits and the authority act between the moment the mirror is *)
(* read and the moment the contract validates.  In this specification hret *)
(* is the wallet's record of the holder's note.                            *)

(* createNote(): leafIndex -1 and spent false; no proof in flight *)
NewNote(n) == [note |-> n, leafIndex |-> -1, spent |-> FALSE, proof |-> FALSE,
               mirror |-> 0, stateRoot |-> Undefined,
               associationRoot |-> Undefined, rejected |-> FALSE]

(* deposit(wallet): the commitment of the note is submitted, and the       *)
(* returned leaf index is stored in the note                               *)
HolderDeposit ==
  /\ hret.leafIndex = -1
  /\ Deposit(Depositor, NoteCommitment(hret.note))
  /\ hret' = [hret EXCEPT !.leafIndex =
                IF TreeFull(Len(commitments), pool_depth) THEN -1
                ELSE Len(commitments)]
  /\ UNCHANGED <<treeVars, cx, nodes>>

(* withdraw, up to the proof: the commitments are fetched, the mirror is   *)
(* built from them with the depth of the pool and its root computed, the   *)
(* association root is fetched and the proof generated over these two      *)
(* roots.  The prover has no witness, and the attempt ends, when the note  *)
(* was never deposited or its label is not under the association root.     *)
ProveCached ==
  /\ ~hret.proof
  /\ UNCHANGED <<depth, leaves, ret, cx, nodes, poolVars>>
  /\ IF hret.leafIndex = -1
       THEN UNCHANGED <<ZERO_VALUES, hret>>
     ELSE \E zeros \in {initializeZeroValues(ZERO_VALUES)} :
          \E tree \in {IF hret.stateRoot = Undefined THEN commitments
                       ELSE SubSeq(commitments, 1, hret.mirror)} :
          \E root \in {computeRoot(tree, pool_depth, zeros)} :
          \E associationRoot \in {association_root} :
            /\ ZERO_VALUES' = zeros
            /\ IF StatementHolds(NoteNullifierHash(hret.note), FIXED_AMOUNT,
                                 root, associationRoot)
                 THEN hret' = [hret EXCEPT !.proof = TRUE,
                                           !.mirror = Len(tree),
                                           !.stateRoot = root,
                                           !.associationRoot = associationRoot]
                 ELSE UNCHANGED hret

Prove ==
  /\ ~hret.proof
  /\ UNCHANGED <<depth, leaves, ret, cx, nodes, poolVars>>
  /\ IF hret.leafIndex = -1
       THEN UNCHANGED <<ZERO_VALUES, hret>>
     ELSE \E zeros \in {initializeZeroValues(ZERO_VALUES)} :
          \E tree \in {commitments} :
          \E root \in {computeRoot(tree, pool_depth, zeros)} :
          \E associationRoot \in {association_root} :
            /\ ZERO_VALUES' = zeros
            /\ IF StatementHolds(NoteNullifierHash(hret.note), FIXED_AMOUNT,
                                 root, associationRoot)
                 THEN hret' = [hret EXCEPT !.proof = TRUE,
                                           !.mirror = Len(tree),
                                           !.stateRoot = root,
                                           !.associationRoot = associationRoot]
                 ELSE UNCHANGED hret

(* withdraw, from the submission on: the contract validates the proof and  *)
(* its signals; on success the note is marked spent, on an error the       *)
(* attempt throws and its proof is dropped (rejected: an attempt of the    *)
(* note failed before the note was spent)                                  *)
Submit ==
  /\ hret.proof
  /\ Withdraw("user", TRUE, NoteNullifierHash(hret.note), FIXED_AMOUNT,
              hret.stateRoot, hret.associationRoot)
  /\ hret' = [hret EXCEPT !.proof = FALSE,
                          !.spent = @ \/ cret'.err = "",
                          !.rejected = @ \/ (cret'.err # "" /\ ~hret.spent)]
  /\ UNCHANGED <<treeVars, cx, nodes>>

(* a pool of depth 1: its accumulator is full after two deposits *)
InitHolder ==
  /\ PoolGenesis(1)
  /\ depth = TREE_DEPTH
  /\ leaves = << >>
  /\ ZERO_VALUES = Null
  /\ ret = NoRet
  /\ cx = NoCx
  /\ \E n \in Notes : hret = NewNote(n)
  /\ nodes = NoNodes

(* the holder's steps, the deposits of others (the commitment of the other *)
(* note, or one of no note here) and the calls of set_association_root     *)
NextHolder ==
  \/ HolderDeposit
  \/ Prove
  \/ Submit
  \/ \E c \in {NoteCommitment(n) : n \in Notes \ {hret.note}} \cup {<<9>>} :
       Deposit(Depositor, c) /\ UNCHANGED <<treeVars, cx, nodes, hret>>
  \/ \E caller \in Callers, root \in AssociationRoots :
       SetAssociationRoot(caller, root) /\ UNCHANGED <<treeVars, cx, nodes, hret>>

SpecHolder == InitHolder /\ [][NextHolder]_vars

(* the state of the holder's note in the lifecycle of the specification *)
NoteState ==
  IF hret.spent THEN "Spent"
  ELSE IF hret.proof THEN "ProofReady"
  ELSE IF hret.leafIndex >= 0 THEN "Deposited"
  ELSE "Created"

SpecHolderFair == SpecHolder /\ WF_vars(Prove) /\ WF_vars(Submit)

C24_AssociationRootAuthorityOnly ==
  [][/\ (association_root' # association_root)
          => /\ cret'.op = "set_association_root"
             /\ cret'.caller = ADMIN /\ cret'.err = ""
             /\ association_root' = cret'.associationRoot
     /\ (cret'.op = "set_association_root" /\ cret'.caller # ADMIN)
          => /\ cret'.err = "OnlyAdmin"
             /\ association_root' = association_root
     /\ (cret'.op \in {"deposit", "withdraw"})
          => association_root' = association_root]_vars

(* another caller asked for a root that differs from the one the authority *)
(* had set, and was refused                                                *)
C24_Witness ==
  /\ cret.op = "set_association_root" /\ cret.caller = "user"
  /\ cret.err = "OnlyAdmin"
  /\ association_root # ZeroRoot
  /\ cret.associationRoot # association_root
  /\ Len(commitments) > 0

----------------------------------------------------------------------------
(* Trees built from a list of leaves *)

(* LeanMerkleTree.fromLeaves(leaves, depth), and fromBufferLeaves, which   *)
(* converts the buffers and calls it: a new tree holding a copy of the     *)
(* list                                                                    *)
fromLeavesUpToCapacity(ls, d) ==
  [depth |-> d, leaves |-> SubSeq(ls, 1, IF Len(ls) < Pow2(d) THEN Len(ls) ELSE Pow2(d))]
fromLeaves(ls, d) == [depth |-> d, leaves |-> ls]

(* tree = LeanMerkleTree.fromLeaves(list, depth) *)
FromLeaves(list) ==
  /\ leaves' = fromLeaves(list, depth).leaves
  /\ depth' = fromLeaves(list, depth).depth
  /\ ret' = [NoRet EXCEPT !.op = "fromLeaves", !.siblings = list]
  /\ UNCHANGED ZERO_VALUES

(* the steps of a tree, and fromLeaves on what a contract returned (up to  *)
(* MaxLeaves commitments) or on the leaves of the tree itself              *)
NextBuild ==
  \/ NextTree
  \/ \E list \in {[i \in 1..k |-> <<i % 2>>] : k \in 0..MaxLeaves} \cup {leaves} :
       FromLeaves(list) /\ UNCHANGED <<poolVars, cx, nodes, hret>>

SpecBuild == InitTree /\ [][NextBuild]_vars

C29_NeverOverCapacity == Len(leaves) <= Pow2(depth)

(* what of C29 holds: computeRoot returns the node at level D over the     *)
(* leaves while the tree holds at most 2^D of them (and D is at most       *)
(* TREE_DEPTH)                                                             *)
RootAtDepthWithinCapacity ==
  (/\ ret.op = "computeRoot" /\ ret.err = ""
   /\ Len(leaves) <= Pow2(depth) /\ depth <= TREE_DEPTH)
    => ret.root = RefRoot(leaves, depth)

----------------------------------------------------------------------------
(* C26: a note string that validateNote reports valid decodes to a note    *)
(* whose value is FIXED_AMOUNT_STROOPS                                      *)
C26_ValidNoteHasFixedValue ==
  (cx.op = "decodeNote" /\ cx.valid)
    => cx.out.note.value = FIXED_AMOUNT_STROOPS

----------------------------------------------------------------------------
(* The MerkleTreeService of the integration guide, fed the same inserts as *)
(* a LeanMerkleTree of the same depth (the service's TREE_DEPTH is the     *)
(* tree's depth)                                                           *)

(* getNode(level, index): the stored node, else EMPTY_VALUE at level 0 and *)
(* emptyHashes[level] above, where emptyHashes[0] = EMPTY_VALUE and        *)
(* emptyHashes[i] = poseidonHash([emptyHashes[i-1], emptyHashes[i-1]])     *)
getNode(ns, level, index) ==
  IF <<level, index>> \in DOMAIN ns THEN ns[<<level, index>>]
  ELSE IF level = 0 THEN <<0>>
  ELSE ZeroRef(level)

(* updatePath(leafIndex): the loop over the levels, setNode at each *)
RECURSIVE updatePath(_, _, _, _, _)
updatePath(ns, currentIndex, currentHash, level, d) ==
  IF ~(level < d) THEN ns
  ELSE LET isRight == currentIndex % 2 = 1
           siblingIndex == IF isRight THEN currentIndex - 1 ELSE currentIndex + 1
           sibling == getNode(ns, level, siblingIndex)
           hash == IF isRight THEN poseidonHash(<<sibling, currentHash>>)
                              ELSE poseidonHash(<<currentHash, sibling>>)
           key == <<level + 1, currentIndex \div 2>>
           set == [k \in DOMAIN ns \cup {key} |-> IF k = key THEN hash ELSE ns[k]]
       IN  updatePath(set, currentIndex \div 2, hash, level + 1, d)

(* insert(leaf) on the service and addLeaf(leaf) on the tree, while the    *)
(* tree has room                                                           *)
Insert(leaf) ==
  LET index == Len(leaves)
  IN  /\ ~AtCapacity(index, depth)
      /\ index < MaxLeaves
      /\ leaves' = Append(leaves, leaf)
      /\ nodes' = updatePath(nodes, index, leaf, 0, depth)
      /\ ret' = [NoRet EXCEPT !.op = "insert", !.leaf = leaf, !.idx = index]
      /\ UNCHANGED <<depth, ZERO_VALUES>>

(* get root() *)
ServiceRoot ==
  /\ ret' = [NoRet EXCEPT !.op = "root", !.root =
               IF Len(leaves) = 0 THEN ZeroRef(depth)
               ELSE getNode(nodes, depth, 0)]
  /\ UNCHANGED <<depth, leaves, ZERO_VALUES, nodes>>

(* generateProof(leafIndex): the siblings read from the stored nodes *)
generateProof(leafIndex) ==
  /\ ret' = IF leafIndex >= Len(leaves)
              THEN [NoRet EXCEPT !.op = "generateProof", !.idx = leafIndex,
                                 !.err = "LEAF_NOT_FOUND"]
              ELSE [NoRet EXCEPT !.op = "generateProof", !.idx = leafIndex,
                      !.leaf = leaves[leafIndex + 1],
                      !.siblings =
                        [l \in 1..depth |->
                           LET currentIndex == leafIndex \div Pow2(l - 1)
                           IN  getNode(nodes, l - 1,
                                       IF currentIndex % 2 = 1
                                         THEN currentIndex - 1
                                         ELSE currentIndex + 1)]]
  /\ UNCHANGED <<depth, leaves, ZERO_VALUES, nodes>>

NextService ==
  \/ \E leaf \in LeafVals : Insert(leaf) /\ UNCHANGED <<poolVars, cx, hret>>
  \/ ServiceRoot /\ UNCHANGED <<poolVars, cx, hret>>
  \/ \E i \in 0..Len(leaves) : generateProof(i) /\ UNCHANGED <<poolVars, cx, hret>>

SpecService == InitTree /\ [][NextService]_vars

(* C27: after the same inserts, at a depth from 1 to the TREE_DEPTH of the *)
(* zero table, the service reports the root computeRoot returns, and for   *)
(* each leaf the sibling list getMerklePath returns                        *)
C27_ServiceRefinesLeanTree ==
  LET zeros == initializeZeroValues(ZERO_VALUES)
  IN  (1 <= depth /\ depth <= TREE_DEPTH)
        => /\ (ret.op = "root")
                => ret.root = computeRoot(leaves, depth, zeros)
           /\ (ret.op = "generateProof" /\ ret.err = "")
                => ret.siblings = getMerklePath(leaves, depth, zeros, ret.idx)

(* what of C27 holds: while the tree holds at most one leaf, or only       *)
(* leaves that are EMPTY_VALUE, the two agree                              *)
ServiceAgreesOnFirstLeaf ==
  LET zeros == initializeZeroValues(ZERO_VALUES)
  IN  (/\ 1 <= depth /\ depth <= TREE_DEPTH
       /\ Len(leaves) <= 1 \/ \A j \in 1..Len(leaves) : leaves[j] = <<0>>)
        => /\ (ret.op = "root")
                => ret.root = computeRoot(leaves, depth, zeros)
           /\ (ret.op = "generateProof" /\ ret.err = "")
                => ret.siblings = getMerklePath(leaves, depth, zeros, ret.idx)

----------------------------------------------------------------------------
(* initializeZeroValues step by step: the first call assigns ZERO_VALUES   *)
(* before it awaits its hashes, and other callers run while it waits       *)

(* the first call, up to its first await: ZERO_VALUES = [BigInt(0)] *)
initializeZeroValuesStart ==
  /\ ZERO_VALUES = Null
  /\ ZERO_VALUES' = << <<0>> >>
  /\ UNCHANGED <<depth, leaves, ret, nodes>>

(* the awaited hash has arrived: ZERO_VALUES[i] is assigned, and the loop  *)
(* awaits the next one or returns                                          *)
initializeZeroValuesResume ==
  LET i == Len(ZERO_VALUES)
      prevZero == ZERO_VALUES[i]
  IN  /\ ZERO_VALUES # Null
      /\ i <= TREE_DEPTH
      /\ ZERO_VALUES' = Append(ZERO_VALUES, poseidonHash(<<prevZero, prevZero>>))
      /\ UNCHANGED <<depth, leaves, ret, nodes>>

(* a call of initializeZeroValues once ZERO_VALUES is set returns it at    *)
(* once, and its caller reads zeros[level]: getZeroValue(level),           *)
(* computeRoot of an empty tree (level = depth), getMockAssociationProof   *)
(* (levels 0 and 1).  ret.ok tells whether the first call had returned.    *)
ReadZeroValue(caller, level) ==
  /\ ZERO_VALUES # Null
  /\ ret' = IF caller = "getZeroValue" /\ (level < 0 \/ level > TREE_DEPTH)
              THEN [NoRet EXCEPT !.op = caller, !.idx = level,
                                 !.err = "Invalid level"]
              ELSE [NoRet EXCEPT !.op = caller, !.idx = level,
                      !.root = At(ZERO_VALUES, level),
                      !.ok = IF Len(ZERO_VALUES) = TREE_DEPTH + 1 THEN "true"
                                                                  ELSE "false"]
  /\ UNCHANGED <<depth, leaves, ZERO_VALUES, nodes>>

NextZero ==
  \/ initializeZeroValuesStart /\ UNCHANGED <<poolVars, cx, hret>>
  \/ initializeZeroValuesResume /\ UNCHANGED <<poolVars, cx, hret>>
  \/ \E level \in -1..(TREE_DEPTH + 1) :
       ReadZeroValue("getZeroValue", level) /\ UNCHANGED <<poolVars, cx, hret>>
  \/ /\ leaves = << >> /\ depth <= TREE_DEPTH
     /\ ReadZeroValue("computeRoot", depth) /\ UNCHANGED <<poolVars, cx, hret>>
  \/ \E level \in {0, 1} :
       ReadZeroValue("getMockAssociationProof", level)
         /\ UNCHANGED <<poolVars, cx, hret>>

SpecZero == InitTree /\ [][NextZero]_vars

(* C28: the entry a caller reads from the table initializeZeroValues gave  *)
(* it is defined: it is zero[level], with zero[0] = 0 and                  *)
(* zero[i] = H(zero[i-1], zero[i-1])                                       *)
C28_ZeroTableComplete ==
  (ret.op \in {"getZeroValue", "computeRoot", "getMockAssociationProof"}
     /\ ret.err = "")
    => (ret.root # Undefined /\ ret.root = ZeroRef(ret.idx))

(* what of C28 holds: the entries assigned so far are the zero values, and *)
(* a caller that reads after the first call returned reads zero[level]     *)
ZeroTableCorrectOnceComplete ==
  /\ (ZERO_VALUES # Null)
       => \A k \in 1..Len(ZERO_VALUES) : ZERO_VALUES[k] = ZeroRef(k - 1)
  /\ (ret.op \in {"getZeroValue", "computeRoot", "getMockAssociationProof"}
        /\ ret.err = "" /\ ret.ok = "true")
       => ret.root = ZeroRef(ret.idx)

----------------------------------------------------------------------------
(* C30: a handleWithdraw that fetched a zero association root returns      *)
(* success = false with the error 'Association root not set' and submits   *)
(* no withdraw                                                             *)
C30_ZeroAssociationRootStopsWithdraw ==
  (hret.op = "handleWithdraw" /\ hret.associationRoot = ZeroRoot)
    => /\ ~hret.success
       /\ hret.error = "Association root not set"
       /\ ~hret.submitted /\ ~hret.real

(* what of C30 holds: the demo-mode version stops so *)
DemoVersionStopsOnZeroAssociationRoot ==
  (hret.op = "handleWithdraw" /\ hret.associationRoot = ZeroRoot
     /\ hret.version = 1)
    => /\ ~hret.success
       /\ hret.error = "Association root not set"
       /\ ~hret.submitted /\ ~hret.real


----------------------------------------------------------------------------
(* zkproof.ts: the circuit input *)

(* the number a decimal string denotes (strings of a few digits) *)
RECURSIVE DecimalValue(_)
DecimalValue(str) ==
  IF Len(str) = 0 THEN 0
  ELSE 10 * DecimalValue(SubSeq(str, 1, Len(str) - 1)) + HexVal(str[Len(str)])

RECURSIVE BigIntValue(_)
BigIntValue(v) ==
  IF Len(v) = 0 THEN 0
  ELSE 16 * BigIntValue(SubSeq(v, 1, Len(v) - 1)) + v[Len(v)]

(* the input siblings, each written in decimal, unchanged in number *)
WrittenAsGiven(out, given) ==
  /\ Len(out) = Len(given)
  /\ \A i \in 1..Len(given) : DecimalValue(out[i]) = BigIntValue(given[i])

(* C31: createWithdrawCircuitInput treats a sibling list whose length      *)
(* differs from the depth as a hard error: it returns a circuit input      *)
(* only for exactly TREE_DEPTH state siblings and exactly ASSOC_DEPTH      *)
(* label siblings, and the input it returns holds the lists it was given,  *)
(* neither padded with zeros nor truncated                                 *)
C31_DepthMismatchIsHardError ==
  cx.op = "createWithdrawCircuitInput" =>
    IF Len(cx.params.stateSiblings) = TREE_DEPTH
         /\ Len(cx.params.labelSiblings) = ASSOC_DEPTH
      THEN /\ cx.err = ""
           /\ WrittenAsGiven(cx.out.stateSiblings, cx.params.stateSiblings)
           /\ WrittenAsGiven(cx.out.labelSiblings, cx.params.labelSiblings)
      ELSE cx.err # ""

(* lists of exactly the depths are passed on as they are, in decimal *)
ExactListsPassedOn ==
  (cx.op = "createWithdrawCircuitInput"
     /\ Len(cx.params.stateSiblings) = TREE_DEPTH
     /\ Len(cx.params.labelSiblings) = ASSOC_DEPTH)
    => /\ WrittenAsGiven(cx.out.stateSiblings, cx.params.stateSiblings)
       /\ WrittenAsGiven(cx.out.labelSiblings, cx.params.labelSiblings)
       /\ DecimalValue(cx.out.withdrawnValue) = BigIntValue(cx.params.withdrawnValue)

(* C32: for every input the circuit input returned has exactly 8 state     *)
(* siblings and exactly 2 label siblings, the depths of the state tree     *)
(* (TREE_DEPTH) and of the association tree                                *)
C32_SiblingCountsFixed ==
  cx.op = "createWithdrawCircuitInput" =>
    /\ Len(cx.out.stateSiblings) = 8 /\ Len(cx.out.stateSiblings) = TREE_DEPTH
    /\ Len(cx.out.labelSiblings) = 2 /\ Len(cx.out.labelSiblings) = ASSOC_DEPTH

(* the state siblings are always 8; the label siblings are at least 2 *)
StateSiblingsAlwaysEight ==
  cx.op = "createWithdrawCircuitInput" =>
    /\ Len(cx.out.stateSiblings) = TREE_DEPTH
    /\ Len(cx.out.labelSiblings) >= ASSOC_DEPTH
    /\ Len(cx.out.labelSiblings) >= Len(cx.params.labelSiblings)


----------------------------------------------------------------------------
(* C33: computeCommitment(v, l, n, s) is the README's three-input form     *)
(* hash(value, label, hash(nullifier, secret)) evaluated by poseidonHash:  *)
(* poseidonHash([v, l, poseidonHash([n, s])]), for all v, l, n, s          *)
C33_ThreeInputForm ==
  cx.op = "computeCommitment" =>
    /\ cx.outA = poseidonHash(<<cx.a[1], cx.a[2],
                                poseidonHash(<<cx.a[3], cx.a[4]>>)>>)
    /\ cx.outB = poseidonHash(<<cx.b[1], cx.b[2],
                                poseidonHash(<<cx.b[3], cx.b[4]>>)>>)

(* a commitment of four different-looking arguments: the three-input form  *)
(* gives it, the four-input flat form does not                             *)
C33_Witness ==
  /\ cx.op = "computeCommitment"
  /\ cx.a[1] # cx.a[2] /\ cx.a[3] # cx.a[4]
  /\ cx.outA = poseidonHash(<<cx.a[1], cx.a[2],
                              poseidonHash(<<cx.a[3], cx.a[4]>>)>>)
  /\ cx.outA # poseidonHash(<<cx.a[1], cx.a[2], cx.a[3], cx.a[4]>>)


----------------------------------------------------------------------------
(* the failures handleWithdraw detects before it builds a transaction *)
EarlyWithdrawErrors ==
  {"Invalid note format", "No deposits found in contract",
   "Commitment not found in tree", "Association root not set"}

(* C34: handleWithdraw returns every failure as {success: false, error},   *)
(* and for a failure that precedes the transaction (note decoding, empty   *)
(* commitment list, commitment absent, association root unset) no withdraw *)
(* transaction is built, signed or submitted                               *)
C34_FailuresReturnedNothingSubmitted ==
  hret.op = "handleWithdraw" =>
    /\ hret.success <=> hret.error = ""
    /\ (hret.error \in EarlyWithdrawErrors \/ hret.associationRoot = ZeroRoot)
         => (~hret.success /\ ~hret.submitted)

(* every outcome is a returned result, and the failures either version     *)
(* does detect early, submit nothing                                       *)
EarlyFailuresSubmitNothing ==
  hret.op = "handleWithdraw" =>
    /\ hret.success <=> hret.error = ""
    /\ (hret.associationRoot = ZeroRoot) => ~hret.success
    /\ (hret.error \in EarlyWithdrawErrors
          \/ (hret.associationRoot = ZeroRoot /\ hret.version = 1))
         => ~hret.submitted


----------------------------------------------------------------------------
(* one handleWithdraw call against a pool that takes deposits from any     *)
(* depositor, before the call and after it: the fetched list holds the     *)
(* commitment of a note once, twice or not at all.  What a call puts into  *)
(* the circuit input depends on the note and the fetched list only, so     *)
(* each behaviour follows one call                                         *)
NextWithdraw ==
  \/ \E n \in Notes :
       Deposit(Depositor, NoteCommitment(n)) /\ UNCHANGED <<treeVars, cx, nodes, hret>>
  \/ /\ hret = NoHret
     /\ \E version \in Versions, n \in Notes \cup {MalformedNote} :
          HandleWithdraw(version, n, "user")
  \/ \E root \in AssociationRoots :
       SetAssociationRoot(ADMIN, root) /\ UNCHANGED <<treeVars, cx, nodes, hret>>

SpecWithdraw == InitClient /\ [][NextWithdraw]_vars

(* C35: the stateIndex, the sibling path and the stateRoot handleWithdraw  *)
(* puts into the circuit input are those of the first position at which    *)
(* the note's commitment occurs in the fetched commitment list, in the     *)
(* tree built from exactly that list, whatever leafIndex the note stores;  *)
(* the index lies in [0, number of fetched commitments)                    *)
C35_CircuitInputFromFirstOccurrence ==
  [][(hret' # hret /\ hret'.op = "handleWithdraw" /\ hret'.stateIndex # -1) =>
       LET commitment == NoteCommitment(hret'.note)
           zeros == ZeroLoop(<< <<0>> >>, 1)
           stateIndex == hret'.stateIndex
       IN  /\ 0 <= stateIndex /\ stateIndex < Len(commitments)
           /\ commitments[stateIndex + 1] = commitment
           /\ \A j \in 1..stateIndex : commitments[j] # commitment
           /\ hret'.stateSiblings
                = getMerklePath(commitments, TREE_DEPTH, zeros, stateIndex)
           /\ hret'.stateRoot = computeRoot(commitments, TREE_DEPTH, zeros)]_vars

(* the commitment deposited twice and a note that stores another index     *)
(* than the first occurrence                                               *)
C35_Witness ==
  /\ hret.op = "handleWithdraw" /\ hret.submitted
  /\ Len(commitments) >= 2 /\ commitments[1] = commitments[2]
  /\ commitments[1] = NoteCommitment(hret.note)
  /\ hret.stateIndex = 0 /\ hret.leafIndex = 1


----------------------------------------------------------------------------
(* pages/PrivacyWithdraw.tsx: the withdraw page.  In this specification    *)
(* hret is the state of the component: its useState cells, the debounce    *)
(* timer of the effect (timer: the input it was set for), the validations  *)
(* in flight (each with the input its closure captured and the call it     *)
(* awaits), and the note string last handed to executeWithdraw.  validFor  *)
(* and spentFor name the input whose validation wrote noteValid and        *)
(* noteSpent.                                                              *)

MaxInFlight == 2

NoPage == [noteInput |-> << >>, isLoading |-> FALSE, isValidating |-> FALSE,
           noteValid |-> "null", noteSpent |-> "null", withdrawResult |-> "null",
           timer |-> << >>, inflight |-> << >>, executed |-> << >>,
           validFor |-> << >>, spentFor |-> << >>]

(* s.trim() *)
trim(s) == TrimRight(SubSeq(s, SkipSpaces(s, 1), Len(s)))

(* isNoteSpent(noteString): the nullifier hash of the decoded note is in   *)
(* the list get_nullifiers returns; false when anything throws             *)
isNoteSpent(noteString) ==
  LET d == decodeNote(noteString)
  IN  IF d.err # "" THEN FALSE
      ELSE poseidonHash(<<d.note.nullifier>>) \in nullifiers

(* what the user types or pastes: nothing, a blank, the string of a note   *)
(* not yet spent, of a spent note, and a string that is no note            *)
UnspentNoteString == join(GoodParts, "-")
SpentNoteString == join([GoodParts EXCEPT ![3] = <<"b">>], "-")
PageInputs ==
  {<< >>, <<" ">>, UnspentNoteString, SpentNoteString,
   join(SubSeq(GoodParts, 1, 6), "-")}

ToFlag(b) == IF b THEN "true" ELSE "false"
RemoveAt(seq, k) == SubSeq(seq, 1, k - 1) \o SubSeq(seq, k + 1, Len(seq))

(* onChange: setNoteInput; the effect's cleanup clears the timer of the    *)
(* previous input, and the effect runs for the new one: an empty input     *)
(* resets noteValid and noteSpent, any other sets the timer and leaves     *)
(* the flags as they are                                                   *)
SetNoteInput(value) ==
  /\ ~hret.isLoading /\ hret.withdrawResult = "null"
  /\ value # hret.noteInput
  /\ hret' = IF trim(value) = << >>
               THEN [hret EXCEPT !.noteInput = value, !.timer = << >>,
                                 !.noteValid = "null", !.noteSpent = "null",
                                 !.validFor = << >>, !.spentFor = << >>]
             ELSE [hret EXCEPT !.noteInput = value, !.timer = <<value>>]

(* the timer fires after 500 ms: validate() sets isValidating and calls    *)
(* validateNote with the input of its closure                              *)
Validate ==
  /\ hret.timer # << >>
  /\ Len(hret.inflight) < MaxInFlight
  /\ hret' = [hret EXCEPT !.timer = << >>, !.isValidating = TRUE,
                          !.inflight = Append(@, [input |-> trim(hret.timer[1]),
                                                  awaits |-> "validateNote"])]

(* validateNote resolves: setNoteValid; a valid note goes on to            *)
(* isNoteSpent, any other ends validate (finally: isValidating false)      *)
ValidateNoteResolves(k) ==
  /\ k \in 1..Len(hret.inflight)
  /\ hret.inflight[k].awaits = "validateNote"
  /\ LET input == hret.inflight[k].input
         valid == validateNote(input)
     IN  hret' = IF valid
                   THEN [hret EXCEPT !.noteValid = "true", !.validFor = <<input>>,
                                     !.inflight[k].awaits = "isNoteSpent"]
                 ELSE [hret EXCEPT !.noteValid = "false", !.validFor = <<input>>,
                                   !.isValidating = FALSE,
                                   !.inflight = RemoveAt(@, k)]

(* isNoteSpent resolves: setNoteSpent, then finally *)
IsNoteSpentResolves(k) ==
  /\ k \in 1..Len(hret.inflight)
  /\ hret.inflight[k].awaits = "isNoteSpent"
  /\ LET input == hret.inflight[k].input
     IN  hret' = [hret EXCEPT !.noteSpent = ToFlag(isNoteSpent(input)),
                              !.spentFor = <<input>>,
                              !.isValidating = FALSE,
                              !.inflight = RemoveAt(@, k)]

(* the button is rendered in the form view and disabled by                 *)
(* !noteValid || noteSpent || isValidating                                 *)
ButtonEnabled ==
  /\ ~hret.isLoading /\ hret.withdrawResult = "null"
  /\ ~(hret.noteValid # "true" \/ hret.noteSpent = "true" \/ hret.isValidating)

(* handleWithdraw of the page: returns on !noteValid || noteSpent, else    *)
(* setIsLoading(true) and executeWithdraw(noteInput.trim(), ...)           *)
PageHandleWithdraw ==
  /\ ButtonEnabled
  /\ ~(hret.noteValid # "true" \/ hret.noteSpent = "true")
  /\ hret' = [hret EXCEPT !.isLoading = TRUE,
                          !.executed = <<trim(hret.noteInput)>>]

(* executeWithdraw returns: setWithdrawResult, setIsLoading(false) *)
ExecuteWithdrawReturns ==
  /\ hret.isLoading
  /\ hret' = [hret EXCEPT !.isLoading = FALSE, !.withdrawResult = "set"]

(* resetWithdraw, the button of both result views; the effect then runs    *)
(* for the empty input                                                     *)
resetWithdraw ==
  /\ hret.withdrawResult # "null"
  /\ hret' = [hret EXCEPT !.noteInput = << >>, !.withdrawResult = "null",
                          !.noteValid = "null", !.noteSpent = "null",
                          !.timer = << >>,
                          !.validFor = << >>, !.spentFor = << >>]

(* the pool after the deposits of both notes and the withdrawal of the     *)
(* second one                                                              *)
InitPage ==
  /\ depth = TREE_DEPTH
  /\ leaves = << >>
  /\ ZERO_VALUES = Null
  /\ ret = NoRet
  /\ pool_depth = TREE_DEPTH
  /\ commitments =
       <<computeCommitment(decodeNote(UnspentNoteString).note.value,
                           decodeNote(UnspentNoteString).note.label,
                           decodeNote(UnspentNoteString).note.nullifier,
                           decodeNote(UnspentNoteString).note.secret),
         computeCommitment(decodeNote(SpentNoteString).note.value,
                           decodeNote(SpentNoteString).note.label,
                           decodeNote(SpentNoteString).note.nullifier,
                           decodeNote(SpentNoteString).note.secret)>>
  /\ nullifiers =
       {computeNullifierHash(decodeNote(SpentNoteString).note.nullifier)}
  /\ association_root = AssociationRootOf(<<NoteLabel(1)>>)
  /\ balance = FIXED_AMOUNT
  /\ cret = NoCret
  /\ cx = NoCx
  /\ hret = NoPage
  /\ nodes = NoNodes

NextPage ==
  \/ \E value \in PageInputs :
       SetNoteInput(value) /\ UNCHANGED <<treeVars, poolVars, cx, nodes>>
  \/ Validate /\ UNCHANGED <<treeVars, poolVars, cx, nodes>>
  \/ \E k \in 1..MaxInFlight :
       ValidateNoteResolves(k) /\ UNCHANGED <<treeVars, poolVars, cx, nodes>>
  \/ \E k \in 1..MaxInFlight :
       IsNoteSpentResolves(k) /\ UNCHANGED <<treeVars, poolVars, cx, nodes>>
  \/ PageHandleWithdraw /\ UNCHANGED <<treeVars, poolVars, cx, nodes>>
  \/ ExecuteWithdrawReturns /\ UNCHANGED <<treeVars, poolVars, cx, nodes>>
  \/ resetWithdraw /\ UNCHANGED <<treeVars, poolVars, cx, nodes>>

SpecPage == InitPage /\ [][NextPage]_vars

(* C36: executeWithdraw is invoked for a note string only after            *)
(* validateNote and isNoteSpent have both completed for that same current  *)
(* input, with valid = true and spent = false; and whenever the flags      *)
(* enable the button, they are the answers for the current input and not   *)
(* for an earlier one                                                      *)
C36_ButtonFlagsAreOfCurrentInput ==
  /\ [](ButtonEnabled =>
          /\ hret.validFor = <<trim(hret.noteInput)>>
          /\ hret.spentFor = <<trim(hret.noteInput)>>)
  /\ [][(~hret.isLoading /\ hret'.isLoading) =>
          /\ hret.validFor = hret'.executed
          /\ hret.spentFor = hret'.executed
          /\ hret.noteValid = "true" /\ hret.noteSpent = "false"
          /\ validateNote(hret'.executed[1])
          /\ ~isNoteSpent(hret'.executed[1])]_vars

(* what the page does keep: the button is enabled only with noteValid      *)
(* true and noteSpent not true, each flag is the correct answer for the    *)
(* input its validation had captured, and executeWithdraw gets the         *)
(* trimmed current input                                                   *)
FlagsAnswerTheirOwnInput ==
  /\ [](/\ hret.noteValid # "null" =>
             (hret.validFor # << >>
                /\ hret.noteValid = ToFlag(validateNote(hret.validFor[1])))
        /\ hret.noteSpent # "null" =>
             (hret.spentFor # << >>
                /\ hret.noteSpent = ToFlag(isNoteSpent(hret.spentFor[1]))))
  /\ [][(~hret.isLoading /\ hret'.isLoading) =>
          /\ hret.noteValid = "true" /\ hret.noteSpent # "true"
          /\ ~hret.isValidating
          /\ hret'.executed = <<trim(hret.noteInput)>>]_vars


----------------------------------------------------------------------------
----------------------------------------------------------------------------
(* the leaf at position j of the tree: zero[0] where no leaf was added *)
LeafAt(j) == IF j >= 0 /\ j < Len(leaves) THEN leaves[j + 1] ELSE <<0>>

(* C38: verifyProof binds a leaf to its position.  Against the root of     *)
(* the tree it answers true only for an index j in [0, 2^D) whose leaf     *)
(* (zero[0] beyond the leaves added) is the leaf given; a path that        *)
(* verifies for i does not verify for i + 2^D                              *)
C38_ProofBindsPosition ==
  (ret.op = "verifyProof" /\ ret.ok = "true"
     /\ 1 <= depth /\ depth <= TREE_DEPTH
     /\ ret.root = RefRoot(leaves, depth))
    => /\ 0 <= ret.idx /\ ret.idx < Pow2(depth)
       /\ LeafAt(ret.idx) = ret.leaf

(* within [0, 2^D) the leaf is bound to its position *)
ProofBindsPositionWithinWidth ==
  (ret.op = "verifyProof" /\ ret.ok = "true"
     /\ 1 <= depth /\ depth <= TREE_DEPTH
     /\ ret.root = RefRoot(leaves, depth)
     /\ 0 <= ret.idx /\ ret.idx < Pow2(depth))
    => LeafAt(ret.idx) = ret.leaf


----------------------------------------------------------------------------
(* C39: the bytes of the client codec are accepted by the relayer and read *)
(* consistently by it: the proof and the four signals the client           *)
(* serializes pass validateProofFormat, and the nullifier hash the relayer *)
(* and the indexer take from the signals (the first 32 bytes) is the       *)
(* nullifier hash the client encoded                                       *)
C39_RelayerAcceptsClientBytes ==
  (cx.op = "submitWithdrawal" /\ Len(cx.publicSignals) = 4) =>
    /\ cx.error = ""
    /\ cx.nullifierHash = fieldElementToBytes(cx.publicSignals[1])
    /\ BytesToBigInt(cx.nullifierHash) = cx.publicSignals[1]

(* what the client does send: 256 and 4 + 32 * 4 bytes, the nullifier      *)
(* hash in the bytes 4..35                                                 *)
ClientBytesAsSerialized ==
  (cx.op = "submitWithdrawal" /\ Len(cx.publicSignals) = 4) =>
    /\ Len(cx.request.proofBytes) = 256
    /\ Len(cx.request.pubSignalsBytes) = 132
    /\ slice(cx.request.pubSignalsBytes, 4, 36) = fieldElementToBytes(cx.publicSignals[1])

====
